---- MODULE Spec2Model ----
(***************************************************************************)
(* Model of the session model-switching subsystem of samus-code:           *)
(* ModelSwitchingService (switchModel, switchToStrength,                    *)
(* autoSwitchBasedOnTask), createContentGenerator, fetchContextLength and   *)
(* TaskEvaluationService.evaluateTaskType.                                  *)
(*                                                                          *)
(* Every async method is a frame with a program counter; the code between   *)
(* two awaits is one atomic action.                                         *)
(***************************************************************************)
EXTENDS Integers, Sequences, FiniteSets, TLC

\* ------------------------------------------------------------------------
\* Bounds
\* ------------------------------------------------------------------------

\* number of generator objects that can be referenced at the same time
MaxGenerators == 4

\* longest chat history the conversation is allowed to grow to
MaxHistory == 2

\* the longest model listing a /v1/models payload holds
MaxEntries == 2

\* the most words a user prompt holds
MaxWords == 2

\* the most /auto-switch commands a session issues
MaxCommands == 3

\* ------------------------------------------------------------------------
\* Enumerations
\* ------------------------------------------------------------------------

LOGIN_WITH_GOOGLE == "oauth-personal"
USE_GEMINI == "gemini-api-key"
USE_VERTEX_AI == "vertex-ai"
CLOUD_SHELL == "cloud-shell"
USE_OPENAI == "openai"
USE_OLLAMA == "ollama"
USE_LM_STUDIO == "lm-studio"

AuthType ==
  {LOGIN_WITH_GOOGLE, USE_GEMINI, USE_VERTEX_AI, CLOUD_SHELL,
   USE_OPENAI, USE_OLLAMA, USE_LM_STUDIO}

\* a provider value outside the enumeration ('unknown' as AuthType)
UnknownProvider == "unknown"

WEAK == "weak"
STRONG == "strong"
ModelStrength == {WEAK, STRONG}

EXPLORATION == "exploration"
PLANNING == "planning"
TROUBLESHOOTING == "troubleshooting"
REVIEW == "review"
DOCUMENTATION == "documentation"
IMPLEMENTATION == "implementation"

TaskType ==
  {EXPLORATION, PLANNING, TROUBLESHOOTING, REVIEW, DOCUMENTATION,
   IMPLEMENTATION}

\* the member names of the TaskType enum object, with their values
TaskTypeKeys ==
  [k \in {"EXPLORATION", "PLANNING", "TROUBLESHOOTING", "REVIEW",
          "DOCUMENTATION", "IMPLEMENTATION"} |->
     CASE k = "EXPLORATION" -> EXPLORATION
       [] k = "PLANNING" -> PLANNING
       [] k = "TROUBLESHOOTING" -> TROUBLESHOOTING
       [] k = "REVIEW" -> REVIEW
       [] k = "DOCUMENTATION" -> DOCUMENTATION
       [] OTHER -> IMPLEMENTATION]

\* ------------------------------------------------------------------------
\* Values
\* ------------------------------------------------------------------------

\* an absent optional string (apiKey, baseUrl, environment variable)
Undefined == ""

\* JavaScript values as they come out of a JSON payload: a missing field,
\* an integer, and by kind t: "null", the "fraction" n + 1/2, a "string" of n
\* characters
JsUndefined == [t |-> "undefined", v |-> 0]
JsNumber(n) == [t |-> "number", v |-> n]
JsValue(t, n) == [t |-> t, v |-> n]

\* JavaScript truthiness, as used by the || chains: undefined, null, 0 and
\* the empty string are falsy
Truthy(x) ==
  CASE x.t = "number" -> x.v # 0
    [] x.t = "fraction" -> TRUE
    [] x.t = "string" -> x.v # 0
    [] OTHER -> FALSE

\* a ?? b, which falls through on a missing or null value only
JsNullishOr(a, b) == IF a.t \in {"undefined", "null"} THEN b ELSE a

\* a || b
JsOr(a, b) == IF Truthy(a) THEN a ELSE b

NoGenerator == [id |-> 0, model |-> "", authType |-> "", baseUrl |-> ""]
NoChat == [generator |-> 0, history |-> << >>]
NoSnapshot == [taken |-> FALSE, history |-> << >>]

\* ------------------------------------------------------------------------
\* ModelSwitchingService: model configuration and the task policy
\* ------------------------------------------------------------------------

\* the environment with none of the _MODEL_WEAK/_MODEL_STRONG variables
\* set. A variable is unset, or set to a string that may be empty
EmptyEnv ==
  LET unset == [set |-> FALSE, value |-> ""]
  IN  [OLLAMA_MODEL_WEAK |-> unset, OLLAMA_MODEL_STRONG |-> unset,
       LM_STUDIO_MODEL_WEAK |-> unset, LM_STUDIO_MODEL_STRONG |-> unset,
       OPENAI_MODEL_WEAK |-> unset, OPENAI_MODEL_STRONG |-> unset]

\* process.env.X ?? fallback: only an unset variable falls back
EnvOrNullish(variable, fallback) ==
  IF variable.set THEN variable.value ELSE fallback

\* process.env.X || fallback: undefined and '' are falsy
EnvOr(variable, fallback) ==
  IF variable.set /\ variable.value # "" THEN variable.value ELSE fallback

\* the provider -> ModelConfig map built by the constructor; a provider
\* outside the domain has no entry
loadModelConfigs(env) ==
  [p \in {USE_OLLAMA, USE_LM_STUDIO, USE_OPENAI} |->
     CASE p = USE_OLLAMA ->
            [weak |-> EnvOr(env.OLLAMA_MODEL_WEAK, "llama3.2"),
             strong |-> EnvOr(env.OLLAMA_MODEL_STRONG, "llama3.1:70b")]
       [] p = USE_LM_STUDIO ->
            [weak |-> EnvOr(env.LM_STUDIO_MODEL_WEAK, "phi-3-mini"),
             strong |-> EnvOr(env.LM_STUDIO_MODEL_STRONG, "mixtral-8x7b")]
       [] OTHER ->
            [weak |-> EnvOr(env.OPENAI_MODEL_WEAK,
                            "mistralai/Mistral-7B-Instruct-v0.2"),
             strong |-> EnvOr(env.OPENAI_MODEL_STRONG,
                              "anthropic/claude-3.5-sonnet")]]

\* modelConfigs.get(provider) is not undefined
HasModelConfig(configs, provider) == provider \in DOMAIN configs

NoModelConfigError(provider) ==
  <<"rejected", "No model config for provider", provider>>

\* variant: the REVIEW case is missing from the strong group
getStrengthForTaskWithoutReview(taskType) ==
  CASE taskType = EXPLORATION -> STRONG
    [] taskType = PLANNING -> STRONG
    [] taskType = TROUBLESHOOTING -> STRONG
    [] OTHER -> WEAK

getStrengthForTask(taskType) ==
  CASE taskType = EXPLORATION -> STRONG
    [] taskType = PLANNING -> STRONG
    [] taskType = TROUBLESHOOTING -> STRONG
    [] taskType = REVIEW -> STRONG
    [] taskType = DOCUMENTATION -> WEAK
    [] taskType = IMPLEMENTATION -> WEAK
    [] OTHER -> WEAK

\* variant: the DOCUMENTATION case sits in the strong group
getModelForTaskDocumentationStrong(configs, taskType, provider) ==
  IF ~HasModelConfig(configs, provider)
    THEN NoModelConfigError(provider)
    ELSE IF taskType \in {EXPLORATION, PLANNING, TROUBLESHOOTING, REVIEW,
                          DOCUMENTATION}
           THEN <<"returned", configs[provider].strong>>
           ELSE <<"returned", configs[provider].weak>>

\* the returned model id, or the thrown error
getModelForTask(configs, taskType, provider) ==
  IF ~HasModelConfig(configs, provider)
    THEN NoModelConfigError(provider)
    ELSE CASE taskType = EXPLORATION -> <<"returned", configs[provider].strong>>
           [] taskType = PLANNING -> <<"returned", configs[provider].strong>>
           [] taskType = TROUBLESHOOTING ->
                <<"returned", configs[provider].strong>>
           [] taskType = REVIEW -> <<"returned", configs[provider].strong>>
           [] taskType = DOCUMENTATION -> <<"returned", configs[provider].weak>>
           [] taskType = IMPLEMENTATION -> <<"returned", configs[provider].weak>>
           [] OTHER -> <<"returned", configs[provider].weak>>

\* ------------------------------------------------------------------------
\* Strings that the code inspects character by character
\* ------------------------------------------------------------------------

\* the characters of a string
Spell(s) ==
  CASE s = "gpt-4-turbo" -> <<"g","p","t","-","4","-","t","u","r","b","o">>
    [] s = "gpt-4-turbo-preview" ->
         <<"g","p","t","-","4","-","t","u","r","b","o","-",
           "p","r","e","v","i","e","w">>
    [] s = "gpt-4-1106-preview" ->
         <<"g","p","t","-","4","-","1","1","0","6","-",
           "p","r","e","v","i","e","w">>
    [] s = "gpt-4" -> <<"g","p","t","-","4">>
    [] s = "gpt-4-32k" -> <<"g","p","t","-","4","-","3","2","k">>
    [] s = "gpt-3.5-turbo" ->
         <<"g","p","t","-","3",".","5","-","t","u","r","b","o">>
    [] s = "gpt-3.5-turbo-16k" ->
         <<"g","p","t","-","3",".","5","-","t","u","r","b","o","-",
           "1","6","k">>
    [] s = "llama3.2" -> <<"l","l","a","m","a","3",".","2">>
    [] s = "llama3.1:70b" -> <<"l","l","a","m","a","3",".","1",":","7","0","b">>
    [] s = "phi-3-mini" -> <<"p","h","i","-","3","-","m","i","n","i">>
    [] s = "mixtral-8x7b" -> <<"m","i","x","t","r","a","l","-","8","x","7","b">>
    [] s = "mistralai/Mistral-7B-Instruct-v0.2" ->
         <<"m","i","s","t","r","a","l","a","i","/","M","i","s","t","r","a","l",
           "-","7","B","-","I","n","s","t","r","u","c","t","-","v","0",".","2">>
    [] s = "anthropic/claude-3.5-sonnet" ->
         <<"a","n","t","h","r","o","p","i","c","/","c","l","a","u","d","e",
           "-","3",".","5","-","s","o","n","n","e","t">>
    [] s = "openrouter" -> <<"o","p","e","n","r","o","u","t","e","r">>
    [] s = "http://localhost:11434" ->
         <<"h","t","t","p",":","/","/","l","o","c","a","l","h","o","s","t",
           ":","1","1","4","3","4">>
    [] s = "http://localhost:1234" ->
         <<"h","t","t","p",":","/","/","l","o","c","a","l","h","o","s","t",
           ":","1","2","3","4">>
    [] s = "https://openrouter.ai/api/v1" ->
         <<"h","t","t","p","s",":","/","/","o","p","e","n","r","o","u","t",
           "e","r",".","a","i","/","a","p","i","/","v","1">>
    [] s = "gpt-4o" ->
         <<"g","p","t","-","4","o">>
    [] s = "gpt-4-0613" ->
         <<"g","p","t","-","4","-","0","6","1","3">>
    [] s = "gpt-4-32k-0613" ->
         <<"g","p","t","-","4","-","3","2","k","-","0","6","1","3">>
    [] s = "gpt-4-turbo-2024-04-09" ->
         <<"g","p","t","-","4","-","t","u","r","b","o","-","2","0","2","4","-","0","4","-","0","9">>
    [] s = "gpt-3.5-turbo-16k-0613" ->
         <<"g","p","t","-","3",".","5","-","t","u","r","b","o","-","1","6","k","-","0","6","1","3">>
    [] s = "o1-mini" ->
         <<"o","1","-","m","i","n","i">>
    [] s = "phi-3" ->
         <<"p","h","i","-","3">>
    [] s = "https://api.openai.com/v1" ->
         <<"h","t","t","p","s",":","/","/","a","p","i",".","o","p","e","n","a","i",".","c","o","m","/","v","1">>
    [] s = "gemini-2.5-pro" ->
         <<"g","e","m","i","n","i","-","2",".","5","-","p","r","o">>
    [] s = "understand" ->
         <<"u","n","d","e","r","s","t","a","n","d">>
    [] s = "explore" ->
         <<"e","x","p","l","o","r","e">>
    [] s = "find" ->
         <<"f","i","n","d">>
    [] s = "discover" ->
         <<"d","i","s","c","o","v","e","r">>
    [] s = "show me" ->
         <<"s","h","o","w"," ","m","e">>
    [] s = "what is" ->
         <<"w","h","a","t"," ","i","s">>
    [] s = "how does" ->
         <<"h","o","w"," ","d","o","e","s">>
    [] s = "explain" ->
         <<"e","x","p","l","a","i","n">>
    [] s = "plan" ->
         <<"p","l","a","n">>
    [] s = "design" ->
         <<"d","e","s","i","g","n">>
    [] s = "architect" ->
         <<"a","r","c","h","i","t","e","c","t">>
    [] s = "approach" ->
         <<"a","p","p","r","o","a","c","h">>
    [] s = "strategy" ->
         <<"s","t","r","a","t","e","g","y">>
    [] s = "break down" ->
         <<"b","r","e","a","k"," ","d","o","w","n">>
    [] s = "debug" ->
         <<"d","e","b","u","g">>
    [] s = "fix" ->
         <<"f","i","x">>
    [] s = "error" ->
         <<"e","r","r","o","r">>
    [] s = "issue" ->
         <<"i","s","s","u","e">>
    [] s = "problem" ->
         <<"p","r","o","b","l","e","m">>
    [] s = "troubleshoot" ->
         <<"t","r","o","u","b","l","e","s","h","o","o","t">>
    [] s = "review" ->
         <<"r","e","v","i","e","w">>
    [] s = "analyze" ->
         <<"a","n","a","l","y","z","e">>
    [] s = "audit" ->
         <<"a","u","d","i","t">>
    [] s = "suggestions" ->
         <<"s","u","g","g","e","s","t","i","o","n","s">>
    [] s = "improve" ->
         <<"i","m","p","r","o","v","e">>
    [] s = "optimize" ->
         <<"o","p","t","i","m","i","z","e">>
    [] s = "document" ->
         <<"d","o","c","u","m","e","n","t">>
    [] s = "readme" ->
         <<"r","e","a","d","m","e">>
    [] s = "comment" ->
         <<"c","o","m","m","e","n","t">>
    [] s = "docs" ->
         <<"d","o","c","s">>
    [] s = "api doc" ->
         <<"a","p","i"," ","d","o","c">>
    [] s = "Explain" ->
         <<"E","x","p","l","a","i","n">>
    [] s = "DESIGN" ->
         <<"D","E","S","I","G","N">>
    [] s = "Fix" ->
         <<"F","i","x">>
    [] s = "Optimize" ->
         <<"O","p","t","i","m","i","z","e">>
    [] s = "README" ->
         <<"R","E","A","D","M","E">>
    [] s = "write" ->
         <<"w","r","i","t","e">>
    [] s = "code" ->
         <<"c","o","d","e">>
    [] s = "the" ->
         <<"t","h","e">>
    [] s = "show" ->
         <<"s","h","o","w">>
    [] s = "me" ->
         <<"m","e">>
    [] s = "explanation" ->
         <<"e","x","p","l","a","n","a","t","i","o","n">>
    [] s = "prefix" ->
         <<"p","r","e","f","i","x">>
    [] s = "EXPLORATION" -> <<"E","X","P","L","O","R","A","T","I","O","N">>
    [] s = "PLANNING" -> <<"P","L","A","N","N","I","N","G">>
    [] s = "TROUBLESHOOTING" ->
         <<"T","R","O","U","B","L","E","S","H","O","O","T","I","N","G">>
    [] s = "REVIEW" -> <<"R","E","V","I","E","W">>
    [] s = "DOCUMENTATION" ->
         <<"D","O","C","U","M","E","N","T","A","T","I","O","N">>
    [] s = "IMPLEMENTATION" ->
         <<"I","M","P","L","E","M","E","N","T","A","T","I","O","N">>
    [] OTHER -> << >>

\* haystack.includes(needle), on characters
Includes(haystack, needle) ==
  \E i \in 0..(Len(haystack) - Len(needle)) :
    \A j \in 1..Len(needle) : haystack[i + j] = needle[j]

LowerCaseLetters ==
  <<"a","b","c","d","e","f","g","h","i","j","k","l","m",
    "n","o","p","q","r","s","t","u","v","w","x","y","z">>

UpperCaseLetters ==
  <<"A","B","C","D","E","F","G","H","I","J","K","L","M",
    "N","O","P","Q","R","S","T","U","V","W","X","Y","Z">>

UpperChar(ch) ==
  IF \E i \in 1..26 : LowerCaseLetters[i] = ch
    THEN UpperCaseLetters[CHOOSE i \in 1..26 : LowerCaseLetters[i] = ch]
    ELSE ch

\* text.toUpperCase()
toUpperCase(text) == [i \in 1..Len(text) |-> UpperChar(text[i])]

LowerChar(ch) ==
  IF \E i \in 1..26 : UpperCaseLetters[i] = ch
    THEN LowerCaseLetters[CHOOSE i \in 1..26 : UpperCaseLetters[i] = ch]
    ELSE ch

\* text.toLowerCase()
toLowerCase(text) == [i \in 1..Len(text) |-> LowerChar(text[i])]

WhiteSpace == {" ", "\n", "\t"}

\* text.trimStart(), which keeps trailing white space
trimStart(text) ==
  LET keep == {i \in 1..Len(text) : text[i] \notin WhiteSpace}
  IN  IF keep = {} THEN << >>
      ELSE SubSeq(text, CHOOSE i \in keep : \A j \in keep : i <= j,
                  Len(text))

\* text.trim()
trim(text) ==
  LET keep == {i \in 1..Len(text) : text[i] \notin WhiteSpace}
  IN  IF keep = {} THEN << >>
      ELSE LET first == CHOOSE i \in keep : \A j \in keep : i <= j
               last == CHOOSE i \in keep : \A j \in keep : j <= i
           IN  SubSeq(text, first, last)

\* ------------------------------------------------------------------------
\* ModelSwitchingService.evaluateTaskType: the keyword classifier
\* ------------------------------------------------------------------------

\* the keywords of each of the five checks
Keywords ==
  [t \in TaskType \ {IMPLEMENTATION} |->
     {Spell(k) : k \in
        CASE t = EXPLORATION ->
               {"understand", "explore", "find", "discover", "show me",
                "what is", "how does", "explain"}
          [] t = PLANNING ->
               {"plan", "design", "architect", "approach", "strategy",
                "break down"}
          [] t = TROUBLESHOOTING ->
               {"debug", "fix", "error", "issue", "problem", "troubleshoot"}
          [] t = REVIEW ->
               {"review", "analyze", "audit", "suggestions", "improve",
                "optimize"}
          [] OTHER ->
               {"document", "readme", "comment", "docs", "api doc"}}]

\* prompt.includes(k) || ... over the keywords of one check
IncludesAny(prompt, keywords) == \E k \in keywords : Includes(prompt, k)

\* the checks with the review check moved to the front
evaluateTaskTypeReviewFirst(userPrompt) ==
  LET prompt == toLowerCase(userPrompt)
  IN  IF IncludesAny(prompt, Keywords[REVIEW]) THEN REVIEW
      ELSE IF IncludesAny(prompt, Keywords[EXPLORATION]) THEN EXPLORATION
      ELSE IF IncludesAny(prompt, Keywords[PLANNING]) THEN PLANNING
      ELSE IF IncludesAny(prompt, Keywords[TROUBLESHOOTING])
        THEN TROUBLESHOOTING
      ELSE IF IncludesAny(prompt, Keywords[DOCUMENTATION]) THEN DOCUMENTATION
      ELSE IMPLEMENTATION

\* ModelSwitchingService.evaluateTaskType(userPrompt)
evaluateTaskTypeByKeywords(userPrompt) ==
  LET prompt == toLowerCase(userPrompt)
  IN  IF IncludesAny(prompt, Keywords[EXPLORATION]) THEN EXPLORATION
      ELSE IF IncludesAny(prompt, Keywords[PLANNING]) THEN PLANNING
      ELSE IF IncludesAny(prompt, Keywords[TROUBLESHOOTING])
        THEN TROUBLESHOOTING
      ELSE IF IncludesAny(prompt, Keywords[REVIEW]) THEN REVIEW
      ELSE IF IncludesAny(prompt, Keywords[DOCUMENTATION]) THEN DOCUMENTATION
      ELSE IMPLEMENTATION

\* ------------------------------------------------------------------------
\* TaskEvaluationService.evaluateTaskType
\* ------------------------------------------------------------------------

\* outcomes of evaluatorModel.generateContent: the call rejects, or resolves
\* with a response whose text is missing or a string; `malformed`: it
\* resolves with undefined or null; ~isString: the text is no string
GenerateRejected ==
  [rejected |-> TRUE, malformed |-> FALSE, hasText |-> FALSE,
   isString |-> FALSE, text |-> << >>]
ResponseWithoutText == [GenerateRejected EXCEPT !.rejected = FALSE]
ResponseWithText(text) ==
  [rejected |-> FALSE, malformed |-> FALSE, hasText |-> TRUE,
   isString |-> TRUE, text |-> text]

\* variant: the lookup without its `|| TaskType.IMPLEMENTATION`
TaskTypeByNameWithoutDefault(name) ==
  IF \E k \in DOMAIN TaskTypeKeys : Spell(k) = name
    THEN TaskTypeKeys[CHOOSE k \in DOMAIN TaskTypeKeys : Spell(k) = name]
    ELSE "undefined"

\* TaskType[name as keyof typeof TaskType] || TaskType.IMPLEMENTATION
TaskTypeByName(name) ==
  IF \E k \in DOMAIN TaskTypeKeys : Spell(k) = name
    THEN TaskTypeKeys[CHOOSE k \in DOMAIN TaskTypeKeys : Spell(k) = name]
    ELSE IMPLEMENTATION

\* a handler that lets the error escape
classificationFailedRethrown(error) == <<"rejected", error>>

\* the catch clause
classificationFailed(error) == <<"returned", IMPLEMENTATION>>

\* how the promise of evaluateTaskType settles; the try block raises on a
\* rejected request, on reading .text of undefined or null, and on calling
\* .trim of a text that has no such method
evaluateTaskTypeSettles(outcome) ==
  IF \/ outcome.rejected
     \/ outcome.malformed
     \/ outcome.hasText /\ ~outcome.isString
    THEN classificationFailed("Task evaluation failed")
    ELSE LET responseText == IF outcome.hasText THEN trim(outcome.text)
                             ELSE << >>
         IN  <<"returned", TaskTypeByName(toUpperCase(responseText))>>

\* the task type a caller awaiting evaluateTaskType receives
evaluateTaskType(outcome) == evaluateTaskTypeSettles(outcome)[2]

\* ------------------------------------------------------------------------
\* contextDiscovery: fetchContextLength
\* ------------------------------------------------------------------------

DefaultContextLength == JsNumber(32768)

\* what `await fetch(...)` followed by `await res.json()` can produce: the
\* pair throws (network error, body that is not JSON), or yields a JSON value
\* that is null or an object
FetchThrows == [threw |-> TRUE, isNull |-> FALSE, hasModelInfo |-> FALSE,
                generalContextLength |-> JsUndefined,
                context_length |-> JsUndefined,
                hasData |-> FALSE, dataIsArray |-> FALSE, data |-> << >>]

JsonNull == [FetchThrows EXCEPT !.threw = FALSE, !.isNull = TRUE]

\* an /api/show payload
ShowPayload(hasInfo, general, top) ==
  [threw |-> FALSE, isNull |-> FALSE, hasModelInfo |-> hasInfo,
   generalContextLength |-> general, context_length |-> top,
   hasData |-> FALSE, dataIsArray |-> FALSE, data |-> << >>]

\* a /v1/models payload; every entry is [id, context_length, max_tokens]
ListPayload(entries) ==
  [threw |-> FALSE, isNull |-> FALSE, hasModelInfo |-> FALSE,
   generalContextLength |-> JsUndefined, context_length |-> JsUndefined,
   hasData |-> TRUE, dataIsArray |-> TRUE, data |-> entries]

ModelEntry(id, contextLength, maxTokens) ==
  [id |-> id, context_length |-> contextLength, max_tokens |-> maxTokens]

NoEntry == [found |-> FALSE, entry |-> ModelEntry("", JsUndefined, JsUndefined)]

\* a lookup by containment: the first entry whose id is part of the model id
FindModelBySubstring(payload, model) ==
  IF ~payload.hasData THEN NoEntry
  ELSE LET hits == {i \in 1..Len(payload.data) :
                      Includes(Spell(model), Spell(payload.data[i].id))}
       IN  IF hits = {} THEN NoEntry
           ELSE [found |-> TRUE,
                 entry |-> payload.data[CHOOSE i \in hits :
                                          \A j \in hits : i <= j]]

\* data.data?.find(m => m.id === model): the first entry with that id
FindModel(payload, model) ==
  IF ~payload.hasData THEN NoEntry
  ELSE LET hits == {i \in 1..Len(payload.data) : payload.data[i].id = model}
       IN  IF hits = {} THEN NoEntry
           ELSE [found |-> TRUE,
                 entry |-> payload.data[CHOOSE i \in hits :
                                          \A j \in hits : i <= j]]

\* modelInfo?.field
EntryField(found, field) ==
  IF ~found.found THEN JsUndefined
  ELSE IF field = "context_length" THEN found.entry.context_length
  ELSE found.entry.max_tokens

\* the known OpenAI context lengths, in the order Object.entries lists them
contextLengths ==
  << <<"gpt-4-turbo", 128000>>,
     <<"gpt-4-turbo-preview", 128000>>,
     <<"gpt-4-1106-preview", 128000>>,
     <<"gpt-4", 8192>>,
     <<"gpt-4-32k", 32768>>,
     <<"gpt-3.5-turbo", 16385>>,
     <<"gpt-3.5-turbo-16k", 16385>> >>

getOpenAIContextLength(model) ==
  LET hits == {i \in 1..Len(contextLengths) :
                 Includes(Spell(model), Spell(contextLengths[i][1]))}
  IN  IF hits = {} THEN JsNumber(32768)
      ELSE JsNumber(contextLengths[CHOOSE i \in hits :
                                     \A j \in hits : i <= j][2])

\* variant: every OpenAI-compatible endpoint with a base URL is asked for its
\* model list
FetchesOverNetworkWithAnyBaseUrl(provider, baseUrl) ==
  \/ provider \in {USE_OLLAMA, USE_LM_STUDIO}
  \/ /\ provider = USE_OPENAI
     /\ baseUrl # Undefined

\* does this call of fetchContextLength issue a network request
FetchesOverNetwork(provider, baseUrl) ==
  \/ provider \in {USE_OLLAMA, USE_LM_STUDIO}
  \/ /\ provider = USE_OPENAI
     /\ baseUrl # Undefined
     /\ Includes(Spell(baseUrl), Spell("openrouter"))

\* variant: the aggregator lookup falls back to the entry's max_tokens, as
\* the LM Studio lookup does
fetchContextLengthWithMaxTokens(provider, model, baseUrl, response) ==
  LET findThrows == response.hasData /\ ~response.dataIsArray
  IN
  CASE provider = USE_OLLAMA ->
         IF response.threw \/ response.isNull THEN DefaultContextLength
         ELSE JsOr(IF response.hasModelInfo
                     THEN response.generalContextLength ELSE JsUndefined,
                   JsOr(response.context_length, DefaultContextLength))
    [] provider \in {USE_LM_STUDIO, USE_OPENAI}
         /\ FetchesOverNetwork(provider, baseUrl) ->
         IF response.threw \/ response.isNull \/ findThrows
           THEN DefaultContextLength
         ELSE LET modelInfo == FindModel(response, model)
              IN  JsOr(EntryField(modelInfo, "context_length"),
                       JsOr(EntryField(modelInfo, "max_tokens"),
                            DefaultContextLength))
    [] provider = USE_OPENAI -> getOpenAIContextLength(model)
    [] OTHER -> DefaultContextLength

\* the value fetchContextLength resolves with, `response` being what the
\* network request (if one is issued) produces; every exception raised in a
\* try block (fetch, res.json(), a property of null, find on a non-array)
\* ends in the catch clause, which returns the default
fetchContextLength(provider, model, baseUrl, response) ==
  LET findThrows == response.hasData /\ ~response.dataIsArray
  IN
  CASE provider = USE_OLLAMA ->
         IF response.threw \/ response.isNull THEN DefaultContextLength
         ELSE JsOr(IF response.hasModelInfo
                     THEN response.generalContextLength ELSE JsUndefined,
                   JsOr(response.context_length, DefaultContextLength))
    [] provider = USE_LM_STUDIO ->
         IF response.threw \/ response.isNull \/ findThrows
           THEN DefaultContextLength
         ELSE LET modelInfo == FindModel(response, model)
              IN  JsOr(EntryField(modelInfo, "context_length"),
                       JsOr(EntryField(modelInfo, "max_tokens"),
                            DefaultContextLength))
    [] provider = USE_OPENAI ->
         IF FetchesOverNetwork(provider, baseUrl)
           THEN IF response.threw \/ response.isNull \/ findThrows
                  THEN DefaultContextLength
                  ELSE LET modelInfo == FindModel(response, model)
                       IN  JsOr(EntryField(modelInfo, "context_length"),
                                DefaultContextLength)
           ELSE getOpenAIContextLength(model)
    [] OTHER -> DefaultContextLength

\* ------------------------------------------------------------------------
\* contentGenerator: createContentGenerator
\* ------------------------------------------------------------------------

IsLocalServer(authType) == authType \in {USE_OLLAMA, USE_LM_STUDIO}

Constructed == <<"ok">>

\* a factory that asks the local servers for their base URL only
ConstructionErrorWithoutKeyCheck(config, codeAssistOk) ==
  CASE config.authType \in {LOGIN_WITH_GOOGLE, CLOUD_SHELL} ->
         IF codeAssistOk THEN Constructed
         ELSE <<"rejected", "code assist login failed">>
    [] config.authType \in {USE_GEMINI, USE_VERTEX_AI, USE_OPENAI} ->
         Constructed
    [] config.authType = USE_OLLAMA ->
         IF config.baseUrl = Undefined
           THEN <<"rejected", "Ollama base URL is required">>
           ELSE Constructed
    [] config.authType = USE_LM_STUDIO ->
         IF config.baseUrl = Undefined
           THEN <<"rejected", "LM Studio base URL is required">>
           ELSE Constructed
    [] OTHER ->
         <<"rejected", "Error creating contentGenerator: Unsupported authType",
           config.authType>>

\* the error createContentGenerator throws before it constructs anything,
\* or Constructed when it gets to construct a generator object;
\* codeAssistOk: whether createCodeAssistContentGenerator resolves
ConstructionError(config, codeAssistOk) ==
  CASE config.authType \in {LOGIN_WITH_GOOGLE, CLOUD_SHELL} ->
         IF codeAssistOk THEN Constructed
         ELSE <<"rejected", "code assist login failed">>
    [] config.authType \in {USE_GEMINI, USE_VERTEX_AI} -> Constructed
    [] config.authType = USE_OPENAI ->
         IF config.apiKey = Undefined
           THEN <<"rejected", "OpenAI API key is required">>
           ELSE Constructed
    [] config.authType = USE_OLLAMA ->
         IF config.baseUrl = Undefined
           THEN <<"rejected", "Ollama base URL is required">>
           ELSE Constructed
    [] config.authType = USE_LM_STUDIO ->
         IF config.baseUrl = Undefined
           THEN <<"rejected", "LM Studio base URL is required">>
           ELSE Constructed
    [] OTHER ->
         <<"rejected", "Error creating contentGenerator: Unsupported authType",
           config.authType>>

\* what the request of healthCheck() can come to: a response with an OK
\* status, a response with another status, a network error, the 5000 ms
\* timeout aborting the request
ProbeOutcomes == {"ok", "status", "network error", "timeout"}

\* a check that takes every response for a sign of life
healthCheckIgnoringStatus(outcome) == outcome \in {"ok", "status"}

\* generator.healthCheck(): response.ok, and false from the catch clause
healthCheck(outcome) ==
  IF outcome \in {"network error", "timeout"} THEN FALSE
  ELSE outcome = "ok"

\* a probe that is also made for the OpenAI-compatible remote provider
ProbesServerAlsoRemote(config) ==
  config.authType \in {USE_OLLAMA, USE_LM_STUDIO, USE_OPENAI}
    /\ config.baseUrl # Undefined

\* does createContentGenerator await generator.healthCheck() for this config
ProbesServer(config) ==
  IsLocalServer(config.authType) /\ config.baseUrl # Undefined

\* the error thrown when healthCheck() resolves to false
ProbeError(config) ==
  IF config.authType = USE_OLLAMA
    THEN <<"rejected", "Cannot connect to Ollama server at", config.baseUrl,
           "Please ensure Ollama is running with \"ollama serve\"">>
    ELSE <<"rejected", "Cannot connect to LM Studio server at", config.baseUrl,
           "Please ensure LM Studio server is running">>

\* the generator object built for config; only the local-server generators
\* keep the base URL
NewGenerator(id, config) ==
  [id |-> id, model |-> config.model, authType |-> config.authType,
   baseUrl |-> IF IsLocalServer(config.authType) THEN config.baseUrl
               ELSE Undefined]

\* variant: the constructor leaves a base URL that is already set
EnvAfterConstructionKeepingFirst(env, config) ==
  IF IsLocalServer(config.authType) /\ env = << >>
    THEN <<config.baseUrl, "/v1">> ELSE env

\* process.env.OPENAI_BASE_URL after the generator's constructor has run
EnvAfterConstruction(env, config) ==
  IF IsLocalServer(config.authType) THEN <<config.baseUrl, "/v1">> ELSE env

\* ------------------------------------------------------------------------
\* State
\* ------------------------------------------------------------------------

\* the callers that can have a service call in flight
Callers == {"a", "b"}

VARIABLES
  modelConfigs,       \* ModelSwitchingService.modelConfigs
  currentStrength,    \* ModelSwitchingService.currentStrength
  currentGenerator,   \* ModelSwitchingService.currentGenerator
  currentChat,        \* ModelSwitchingService.currentChat
  OPENAI_BASE_URL,    \* process.env.OPENAI_BASE_URL
  gcConfig,           \* the session's resolved ContentGeneratorConfig
  call,               \* per caller: the frame of its service call
  query               \* a function under check: its arguments and results

vars ==
  <<modelConfigs, currentStrength, currentGenerator, currentChat,
    OPENAI_BASE_URL, gcConfig, call, query>>

\* the fields of the service that a switch reads and writes
This ==
  [currentStrength |-> currentStrength,
   currentGenerator |-> currentGenerator,
   currentChat |-> currentChat]

SetThis(S) ==
  /\ currentStrength' = S.currentStrength
  /\ currentGenerator' = S.currentGenerator
  /\ currentChat' = S.currentChat

NoConfig == [apiKey |-> Undefined, baseUrl |-> Undefined]

NoQuery == [fn |-> "none"]

IdleFrame ==
  [op |-> "none", pc |-> "idle",
   provider |-> "", config |-> NoConfig,
   newModel |-> "", strength |-> WEAK,
   evaluator |-> NoGenerator, temporary |-> NoGenerator,
   pending |-> NoGenerator, built |-> NoGenerator,
   taskType |-> "", requiredStrength |-> "",
   snapshot |-> NoSnapshot, limit |-> JsUndefined, compressed |-> NoSnapshot,
   lastCreate |-> << >>, result |-> <<"pending">>,
   pre |-> [currentStrength |-> WEAK, currentGenerator |-> NoGenerator,
            currentChat |-> NoChat],
   fetches |-> 0, creates |-> 0, delegated |-> FALSE,
   discoveryFailed |-> FALSE, replyNamesTask |-> FALSE,
   command |-> "", args |-> << >>, modelArg |-> << >>, message |-> << >>,
   replaced |-> << >>]

\* ------------------------------------------------------------------------
\* Inputs
\* ------------------------------------------------------------------------

Providers == AuthType \cup {UnknownProvider}

\* the session's Config object: whether the CLI has loaded one, what
\* getContentGeneratorConfig() returns, and the model that setModel assigns
SessionConfig(authType, apiKey, baseUrl) ==
  [authType |-> authType, apiKey |-> apiKey, baseUrl |-> baseUrl,
   model |-> "qwen/qwen3-coder", loaded |-> TRUE]

\* the configs a session can run with: what createContentGeneratorConfig
\* resolves for each provider, with and without the credential and the base
\* URL that createContentGenerator asks for
SessionConfigs ==
  {SessionConfig(p, Undefined, Undefined) :
     p \in {LOGIN_WITH_GOOGLE, CLOUD_SHELL, USE_VERTEX_AI, UnknownProvider}}
  \cup {SessionConfig(USE_GEMINI, "sk-key", Undefined)}
  \cup {SessionConfig(USE_OPENAI, k, u) :
          k \in {Undefined, "sk-key"},
          u \in {Undefined, "https://openrouter.ai/api/v1"}}
  \cup {SessionConfig(USE_OLLAMA, "not-required", u) :
          u \in {Undefined, "http://localhost:11434"}}
  \cup {SessionConfig(USE_LM_STUDIO, "not-required", u) :
          u \in {Undefined, "http://localhost:1234"}}

\* the base config a caller passes along with the provider
BaseConfig(session) == [apiKey |-> session.apiKey, baseUrl |-> session.baseUrl]

\* model ids given to switchModel by name
ExplicitModels == {"llama3.2", "llama3.1:70b", "gpt-4-32k"}

\* the role of the turn that extends a history: user and model alternate
NextTurn(history) == IF Len(history) % 2 = 0 THEN "user" ELSE "model"

\* what the discovery request of a switch can produce
Responses ==
  {FetchThrows, JsonNull,
   ShowPayload(TRUE, JsNumber(4096), JsNumber(8192)),
   ShowPayload(TRUE, JsNumber(1), JsUndefined),
   ShowPayload(FALSE, JsUndefined, JsUndefined),
   ListPayload(<<ModelEntry("llama3.2", JsNumber(4096), JsUndefined),
                 ModelEntry("phi-3-mini", JsUndefined, JsNumber(8192))>>)}

\* what the classification request can produce
Replies ==
  {GenerateRejected, ResponseWithoutText,
   ResponseWithText(Spell("EXPLORATION")),
   ResponseWithText(Spell("PLANNING")),
   ResponseWithText(Spell("TROUBLESHOOTING")),
   ResponseWithText(<<" ", "r", "e", "v", "i", "e", "w", "\n">>),
   ResponseWithText(Spell("DOCUMENTATION")),
   ResponseWithText(Spell("IMPLEMENTATION")),
   ResponseWithText(<<"D", "E", "B", "U", "G">>),
   ResponseWithText(<< >>)}

\* the generator the application built at startup, which a caller can hand
\* to autoSwitchBasedOnTask
AppGenerator ==
  [id |-> -1, model |-> "qwen/qwen3-coder", authType |-> USE_OPENAI,
   baseUrl |-> Undefined]

\* ------------------------------------------------------------------------
\* Generator identities
\* ------------------------------------------------------------------------

GeneratorIds == 1..MaxGenerators

FrameIds(f) ==
  {f.evaluator.id, f.temporary.id, f.pending.id, f.built.id,
   f.pre.currentGenerator.id, f.pre.currentChat.generator}

UsedIds ==
  {currentGenerator.id, currentChat.generator}
    \cup UNION {FrameIds(call[c]) : c \in Callers}

CanAllocate == GeneratorIds \ UsedIds # {}

\* the identity of the next generator object: one no live reference holds
FreshId ==
  CHOOSE i \in GeneratorIds \ UsedIds :
    \A j \in GeneratorIds \ UsedIds : i <= j

\* ------------------------------------------------------------------------
\* ModelSwitchingService: the synchronous segments of the switch methods.
\* S is the record of the service fields (see This), f the frame of the call.
\* ------------------------------------------------------------------------

\* variant: a snapshot is taken whether or not there is a session
serializeSessionAlways(S) ==
  [taken |-> TRUE, history |-> S.currentChat.history]

serializeSession(S) ==
  IF S.currentChat = NoChat \/ S.currentGenerator = NoGenerator
    THEN NoSnapshot
    ELSE [taken |-> TRUE, history |-> S.currentChat.history]

\* a compression that drops the oldest turn
compressDroppingOldest(snapshot, contextLimit) ==
  [snapshot EXCEPT !.history = IF @ = << >> THEN @ ELSE Tail(@)]

\* the compression is not implemented: the snapshot comes back as it is
compress(snapshot, contextLimit) == snapshot

\* variant: the turns added to the live chat since the snapshot are carried
\* over after those of the snapshot
rehydrateWithLaterTurns(S, generator, snapshot) ==
  [S EXCEPT !.currentChat =
              [generator |-> generator.id,
               history |-> snapshot.history \o
                             SubSeq(S.currentChat.history,
                                    Len(snapshot.history) + 1,
                                    Len(S.currentChat.history))],
            !.currentGenerator = generator]

\* variant: the new chat is given the turns of the chat that is live when
\* the switch commits, not those of the snapshot
rehydrateFromLiveChat(S, generator, snapshot) ==
  [S EXCEPT !.currentChat = [generator |-> generator.id,
                             history |-> S.currentChat.history],
            !.currentGenerator = generator]

\* variant: the chat is replaced and the generator is left for later
rehydrateChatFirst(S, generator, snapshot) ==
  [S EXCEPT !.currentChat = [generator |-> generator.id,
                             history |-> snapshot.history]]

rehydrate(S, generator, snapshot) ==
  [S EXCEPT !.currentChat = [generator |-> generator.id,
                             history |-> snapshot.history],
            !.currentGenerator = generator]

\* the else branch of step 5: a new, empty chat on the new generator
freshStart(S, generator) ==
  [S EXCEPT !.currentChat = [generator |-> generator.id, history |-> << >>],
            !.currentGenerator = generator]

\* variant: the strength is reset along with the generator and the chat
rehydrateOrFreshStartResettingStrength(S, generator, compressed) ==
  [(IF compressed.taken THEN rehydrate(S, generator, compressed)
    ELSE freshStart(S, generator)) EXCEPT !.currentStrength = WEAK]

\* step 5 of switchModel
rehydrateOrFreshStart(S, generator, compressed) ==
  IF compressed.taken THEN rehydrate(S, generator, compressed)
  ELSE freshStart(S, generator)

\* variant: the error is replaced by a generic one on the way up
RejectWithGenericError(f, error) ==
  [f EXCEPT !.pc = "done", !.result = <<"rejected", "Failed to switch model">>]

\* an error thrown inside an awaited call, with no try/catch around it,
\* rejects the call
RejectWith(f, error) == [f EXCEPT !.pc = "done", !.result = error]

\* the call of frame f threw
Rejected(f) == f.result[1] = "rejected"

\* switchModel up to its first await: the snapshot is taken and the
\* discovery request is issued
switchModelEntry(f, S, newModel, newProvider, config) ==
  [f EXCEPT !.newModel = newModel, !.provider = newProvider,
            !.config = config,
            !.snapshot = serializeSession(S),
            !.fetches = @ + 1,
            !.pc = "discover"]

\* variant: the two ids are taken the wrong way round
StrengthModelSwapped(modelConfig, strength) ==
  IF strength = WEAK THEN modelConfig.strong ELSE modelConfig.weak

StrengthModel(modelConfig, strength) ==
  IF strength = WEAK THEN modelConfig.weak ELSE modelConfig.strong

\* variant: currentStrength is assigned before the model config is looked up
StrengthOnEntryBeforeLookup(S, configs, strength, provider) == strength

\* variant: currentStrength is not assigned before the switch has succeeded
StrengthOnEntryDeferred(S, configs, strength, provider) == S.currentStrength

\* currentStrength as switchToStrength leaves it before it delegates
StrengthOnEntry(S, configs, strength, provider) ==
  IF HasModelConfig(configs, provider) THEN strength ELSE S.currentStrength

\* switchToStrength up to the first await of the switchModel it delegates to
switchToStrengthEntry(f, S, configs, strength, provider, config) ==
  IF ~HasModelConfig(configs, provider)
    THEN [frame |-> RejectWith([f EXCEPT !.provider = provider,
                                         !.config = config],
                               NoModelConfigError(provider)),
          this |-> [S EXCEPT !.currentStrength =
                      StrengthOnEntry(S, configs, strength, provider)]]
    ELSE LET S2 == [S EXCEPT !.currentStrength =
                      StrengthOnEntry(S, configs, strength, provider)]
         IN  [frame |-> switchModelEntry(
                          f, S2, StrengthModel(configs[provider], strength),
                          provider, config),
              this |-> S2]

\* variant: the switch is made whatever the current strength is
NeedsSwitchAlways(requiredStrength, current) == TRUE

\* requiredStrength !== this.currentStrength
NeedsSwitch(requiredStrength, current) == requiredStrength # current

\* autoSwitchBasedOnTask up to its first await
autoSwitchEntry(f, S, configs, provider, config, generatorArg) ==
  LET f1 == [f EXCEPT !.provider = provider, !.config = config,
                      !.evaluator = generatorArg]
  IN  IF S.currentStrength = STRONG
        THEN IF ~HasModelConfig(configs, provider)
               THEN RejectWith(f1, NoModelConfigError(provider))
               ELSE [f1 EXCEPT !.pc = "createWeak", !.creates = @ + 1]
        ELSE [f1 EXCEPT !.pc = "classify"]

\* the config handed to createContentGenerator: weakConfig for the
\* evaluator, newConfig for the switch
TargetConfig(f, configs) ==
  [model |-> IF f.pc \in {"createWeak", "probeWeak"}
               THEN configs[f.provider].weak ELSE f.newModel,
   authType |-> f.provider,
   apiKey |-> f.config.apiKey,
   baseUrl |-> f.config.baseUrl]

\* variant: the evaluator generator is also stored in the service
evaluatorCreatedAndStored(f, S, generator) ==
  [frame |-> [f EXCEPT !.evaluator = generator, !.temporary = generator,
                       !.pending = NoGenerator, !.lastCreate = Constructed,
                       !.pc = "classify"],
   this |-> [S EXCEPT !.currentGenerator = generator]]

\* autoSwitchBasedOnTask after `evaluatorGenerator = await
\* createContentGenerator(weakConfig, ...)`: only the local variable is set
evaluatorCreated(f, S, generator) ==
  [frame |-> [f EXCEPT !.evaluator = generator, !.temporary = generator,
                       !.pending = NoGenerator, !.lastCreate = Constructed,
                       !.pc = "classify"],
   this |-> S]

\* variant: a discovery that ends in its catch clause rejects the switch
discoveredOrRejected(f, response) ==
  LET limit == fetchContextLength(f.provider, f.newModel, f.config.baseUrl,
                                  response)
      failed == /\ FetchesOverNetwork(f.provider, f.config.baseUrl)
                /\ (response.threw \/ response.isNull)
      g == [f EXCEPT !.limit = limit, !.discoveryFailed = failed]
  IN  IF failed
        THEN [g EXCEPT !.pc = "done",
                       !.result = <<"rejected", "Context discovery failed">>]
      ELSE IF f.snapshot.taken THEN [g EXCEPT !.pc = "compress"]
      ELSE [g EXCEPT !.pc = "create", !.creates = @ + 1]

\* switchModel after `limit = await fetchContextLength(...)`: step 3 when a
\* snapshot was taken, step 4 otherwise. The frame keeps whether the request
\* ended in the catch clause of fetchContextLength (the fetch or res.json()
\* threw, or the body was the JSON null)
discovered(f, response) ==
  LET limit == fetchContextLength(f.provider, f.newModel, f.config.baseUrl,
                                  response)
      failed == /\ FetchesOverNetwork(f.provider, f.config.baseUrl)
                /\ (response.threw \/ response.isNull)
      g == [f EXCEPT !.limit = limit, !.discoveryFailed = failed]
  IN  IF f.snapshot.taken THEN [g EXCEPT !.pc = "compress"]
      ELSE [g EXCEPT !.pc = "create", !.creates = @ + 1]

\* variant: a strength switch assigns currentStrength when it commits, so
\* that the strength always belongs to the generator installed last
generatorCreatedSettingStrength(f, S, generator) ==
  [frame |-> [f EXCEPT !.pending = NoGenerator, !.lastCreate = Constructed,
                       !.built = generator,
                       !.replaced = S.currentChat.history,
                       !.pc = "done",
                       !.result = IF f.op = "autoSwitchBasedOnTask"
                                    THEN <<"returned", "true">>
                                    ELSE <<"resolved">>],
   this |-> [rehydrateOrFreshStart(S, generator, f.compressed)
               EXCEPT !.currentStrength =
                        IF f.op = "switchToStrength" THEN f.strength ELSE @]]

\* switchModel after `newGenerator = await createContentGenerator(newConfig,
\* ...)`: step 5, then the callers up the stack return. The frame keeps the
\* turns of the chat that step 5 takes out of the service
generatorCreated(f, S, generator) ==
  [frame |-> [f EXCEPT !.pending = NoGenerator, !.lastCreate = Constructed,
                       !.built = generator,
                       !.replaced = S.currentChat.history,
                       !.pc = "done",
                       !.result = IF f.op = "autoSwitchBasedOnTask"
                                    THEN <<"returned", "true">>
                                    ELSE <<"resolved">>],
   this |-> rehydrateOrFreshStart(S, generator, f.compressed)]

\* the continuation of the await on createContentGenerator
created(f, S, generator) ==
  IF f.pc \in {"createWeak", "probeWeak"}
    THEN evaluatorCreated(f, S, generator)
    ELSE generatorCreated(f, S, generator)

\* variant: the construction error is caught and the call resolves
createFailedSwallowed(f, error) ==
  [f EXCEPT !.pending = NoGenerator, !.lastCreate = error,
            !.pc = "done", !.result = <<"resolved">>]

\* the continuation when createContentGenerator throws
createFailed(f, error) ==
  RejectWith([f EXCEPT !.pending = NoGenerator, !.lastCreate = error], error)

\* autoSwitchBasedOnTask after `taskType = await evaluateTaskType(...)`
classified(f, S, configs, taskType) ==
  LET requiredStrength == getStrengthForTask(taskType)
      f1 == [f EXCEPT !.taskType = taskType,
                      !.requiredStrength = requiredStrength]
  IN  IF NeedsSwitch(requiredStrength, S.currentStrength)
        THEN switchToStrengthEntry([f1 EXCEPT !.delegated = TRUE], S, configs,
                                   requiredStrength, f.provider, f.config)
        ELSE [frame |-> [f1 EXCEPT !.pc = "done",
                                   !.result = <<"returned", "false">>],
              this |-> S]

\* ------------------------------------------------------------------------
\* Initial state: a freshly constructed service
\* ------------------------------------------------------------------------

Init ==
  /\ modelConfigs = loadModelConfigs(EmptyEnv)
  /\ currentStrength = WEAK
  /\ currentGenerator = NoGenerator
  /\ currentChat = NoChat
  /\ OPENAI_BASE_URL = << >>
  /\ gcConfig \in SessionConfigs
  /\ call = [c \in Callers |-> IdleFrame]
  /\ query = NoQuery

\* ------------------------------------------------------------------------
\* Calls of the service methods
\* ------------------------------------------------------------------------

NewFrame(op) == [IdleFrame EXCEPT !.op = op, !.pre = This]

SwitchModelCall(c, newModel, newProvider, config) ==
  /\ call[c].pc = "idle"
  /\ call' = [call EXCEPT ![c] =
                switchModelEntry(NewFrame("switchModel"), This,
                                 newModel, newProvider, config)]
  /\ UNCHANGED <<modelConfigs, currentStrength, currentGenerator, currentChat,
                 OPENAI_BASE_URL, gcConfig, query>>

SwitchToStrengthCall(c, strength, provider, config) ==
  /\ call[c].pc = "idle"
  /\ LET r == switchToStrengthEntry(
                [NewFrame("switchToStrength") EXCEPT !.strength = strength],
                This, modelConfigs, strength, provider, config)
     IN  /\ call' = [call EXCEPT ![c] = r.frame]
         /\ SetThis(r.this)
  /\ UNCHANGED <<modelConfigs, OPENAI_BASE_URL, gcConfig, query>>

AutoSwitchCall(c, provider, config, generatorArg) ==
  /\ call[c].pc = "idle"
  /\ call' = [call EXCEPT ![c] =
                autoSwitchEntry(NewFrame("autoSwitchBasedOnTask"), This,
                                modelConfigs, provider, config, generatorArg)]
  /\ UNCHANGED <<modelConfigs, currentStrength, currentGenerator, currentChat,
                 OPENAI_BASE_URL, gcConfig, query>>

\* the generators a caller can pass as the currentGenerator argument
GeneratorArgs ==
  {AppGenerator} \cup (IF currentGenerator = NoGenerator THEN {}
                       ELSE {currentGenerator})

\* ------------------------------------------------------------------------
\* Continuations after each await
\* ------------------------------------------------------------------------

\* `await fetchContextLength(...)` resolves (step 2), then step 3 starts
DiscoverStep(c) ==
  /\ call[c].pc = "discover"
  /\ \E response \in Responses :
       call' = [call EXCEPT ![c] = discovered(call[c], response)]
  /\ UNCHANGED <<modelConfigs, currentStrength, currentGenerator, currentChat,
                 OPENAI_BASE_URL, gcConfig, query>>

\* `await this.compress(snapshot, limit)` resolves, then step 4 starts
CompressStep(c) ==
  /\ call[c].pc = "compress"
  /\ LET f == call[c]
     IN  call' = [call EXCEPT ![c] =
                    [f EXCEPT !.compressed = compress(f.snapshot, f.limit),
                              !.pc = "create", !.creates = @ + 1]]
  /\ UNCHANGED <<modelConfigs, currentStrength, currentGenerator, currentChat,
                 OPENAI_BASE_URL, gcConfig, query>>

\* createContentGenerator runs up to the health check (local servers) or to
\* its end (every other provider)
CreateStep(c) ==
  /\ call[c].pc \in {"createWeak", "create"}
  /\ \E codeAssistOk \in BOOLEAN :
       LET f == call[c]
           config == TargetConfig(f, modelConfigs)
           error == ConstructionError(config, codeAssistOk)
       IN  IF error # Constructed
             THEN /\ call' = [call EXCEPT ![c] = createFailed(f, error)]
                  /\ UNCHANGED <<currentStrength, currentGenerator,
                                 currentChat, OPENAI_BASE_URL>>
             ELSE /\ CanAllocate
                  /\ OPENAI_BASE_URL' =
                       EnvAfterConstruction(OPENAI_BASE_URL, config)
                  /\ LET generator == NewGenerator(FreshId, config)
                     IN  IF ProbesServer(config)
                           THEN /\ call' = [call EXCEPT ![c] =
                                     [f EXCEPT !.pending = generator,
                                               !.pc = IF f.pc = "create"
                                                        THEN "probe"
                                                        ELSE "probeWeak"]]
                                /\ UNCHANGED <<currentStrength,
                                               currentGenerator, currentChat>>
                           ELSE LET r == created(f, This, generator)
                                IN  /\ call' = [call EXCEPT ![c] = r.frame]
                                    /\ SetThis(r.this)
  /\ UNCHANGED <<modelConfigs, gcConfig, query>>

\* `await generator.healthCheck()` resolves
ProbeStep(c) ==
  /\ call[c].pc \in {"probeWeak", "probe"}
  /\ \E outcome \in ProbeOutcomes :
       LET f == call[c]
           config == TargetConfig(f, modelConfigs)
           isHealthy == healthCheck(outcome)
       IN  IF isHealthy
             THEN LET r == created(f, This, f.pending)
                  IN  /\ call' = [call EXCEPT ![c] = r.frame]
                      /\ SetThis(r.this)
             ELSE /\ call' = [call EXCEPT ![c] =
                                createFailed(f, ProbeError(config))]
                  /\ UNCHANGED <<currentStrength, currentGenerator,
                                 currentChat>>
  /\ UNCHANGED <<modelConfigs, OPENAI_BASE_URL, gcConfig, query>>

\* `await this.taskEvaluator.evaluateTaskType(...)` resolves; the frame
\* keeps whether the evaluator's reply was a text naming one of the six
\* task types
ClassifyStep(c) ==
  /\ call[c].pc = "classify"
  /\ \E reply \in Replies :
       LET r == classified(call[c], This, modelConfigs,
                           evaluateTaskType(reply))
           named == /\ ~reply.rejected /\ ~reply.malformed
                    /\ reply.hasText /\ reply.isString
                    /\ \E k \in DOMAIN TaskTypeKeys :
                         Spell(k) = toUpperCase(trim(reply.text))
       IN  /\ call' = [call EXCEPT ![c] =
                          [r.frame EXCEPT !.replyNamesTask = named]]
           /\ SetThis(r.this)
  /\ UNCHANGED <<modelConfigs, OPENAI_BASE_URL, gcConfig, query>>

\* the caller takes the outcome of its call
Return(c) ==
  /\ call[c].pc = "done"
  /\ call' = [call EXCEPT ![c] = IdleFrame]
  /\ UNCHANGED <<modelConfigs, currentStrength, currentGenerator, currentChat,
                 OPENAI_BASE_URL, gcConfig, query>>

\* the conversation goes on: a turn is added to the live chat's history
AppendTurn ==
  /\ currentChat # NoChat
  /\ Len(currentChat.history) < MaxHistory
  /\ currentChat' = [currentChat EXCEPT !.history =
                       Append(@, NextTurn(currentChat.history))]
  /\ UNCHANGED <<modelConfigs, currentStrength, currentGenerator,
                 OPENAI_BASE_URL, gcConfig, call, query>>

\* ------------------------------------------------------------------------
\* Specification: callers keep to one service call at a time
\* ------------------------------------------------------------------------

NoCallInFlight == \A c \in Callers : call[c].pc = "idle"

\* every call is made for the session's provider with the session's config
Next ==
  \/ \E c \in Callers, newModel \in ExplicitModels :
       /\ NoCallInFlight
       /\ SwitchModelCall(c, newModel, gcConfig.authType, BaseConfig(gcConfig))
  \/ \E c \in Callers, strength \in ModelStrength :
       /\ NoCallInFlight
       /\ SwitchToStrengthCall(c, strength, gcConfig.authType,
                               BaseConfig(gcConfig))
  \/ \E c \in Callers, generatorArg \in GeneratorArgs :
       /\ NoCallInFlight
       /\ AutoSwitchCall(c, gcConfig.authType, BaseConfig(gcConfig),
                         generatorArg)
  \/ \E c \in Callers : DiscoverStep(c)
  \/ \E c \in Callers : CompressStep(c)
  \/ \E c \in Callers : CreateStep(c)
  \/ \E c \in Callers : ProbeStep(c)
  \/ \E c \in Callers : ClassifyStep(c)
  \/ \E c \in Callers : Return(c)
  \/ AppendTurn

Spec == Init /\ [][Next]_vars

\* ------------------------------------------------------------------------
\* Specification: two calls that do not wait for one another
\* ------------------------------------------------------------------------

\* an active session: switchToStrength(WEAK, ...) has succeeded once on the
\* new service, for a provider that is ready to serve
InitOverlapping ==
  /\ modelConfigs = loadModelConfigs(EmptyEnv)
  /\ currentStrength = WEAK
  /\ gcConfig \in {SessionConfig(USE_OLLAMA, "not-required",
                                 "http://localhost:11434"),
                   SessionConfig(USE_OPENAI, "sk-key", Undefined)}
  /\ LET config == [model |-> modelConfigs[gcConfig.authType].weak,
                    authType |-> gcConfig.authType,
                    apiKey |-> gcConfig.apiKey,
                    baseUrl |-> gcConfig.baseUrl]
     IN  /\ currentGenerator = NewGenerator(1, config)
         /\ OPENAI_BASE_URL = EnvAfterConstruction(<< >>, config)
  /\ currentChat = [generator |-> 1, history |-> << >>]
  /\ call = [c \in Callers |-> IdleFrame]
  /\ query = NoQuery

\* the service takes no lock: each caller makes one call, and the second
\* can be made while the first is suspended at one of its awaits
NextOverlapping ==
  \/ \E c \in Callers, newModel \in ExplicitModels :
       SwitchModelCall(c, newModel, gcConfig.authType, BaseConfig(gcConfig))
  \/ \E c \in Callers, strength \in ModelStrength :
       SwitchToStrengthCall(c, strength, gcConfig.authType,
                            BaseConfig(gcConfig))
  \/ \E c \in Callers : DiscoverStep(c)
  \/ \E c \in Callers : CompressStep(c)
  \/ \E c \in Callers : CreateStep(c)
  \/ \E c \in Callers : ProbeStep(c)
  \/ AppendTurn

SpecOverlapping == InitOverlapping /\ [][NextOverlapping]_vars

\* ------------------------------------------------------------------------
\* Specification: a session that also switches to a second local server
\* ------------------------------------------------------------------------

\* the provider and base config a caller passes: the session's own, or an
\* LM Studio server next to it
Servers ==
  {[provider |-> gcConfig.authType, config |-> BaseConfig(gcConfig)],
   [provider |-> USE_LM_STUDIO,
    config |-> [apiKey |-> "not-required",
                baseUrl |-> "http://localhost:1234"]]}

\* one call at a time, each for either server
NextServers ==
  \/ \E c \in Callers, server \in Servers :
       /\ NoCallInFlight
       /\ SwitchModelCall(c, "llama3.2", server.provider, server.config)
  \/ \E c \in Callers, strength \in ModelStrength, server \in Servers :
       /\ NoCallInFlight
       /\ SwitchToStrengthCall(c, strength, server.provider, server.config)
  \/ \E c \in Callers, server \in Servers :
       /\ NoCallInFlight
       /\ currentGenerator # NoGenerator
       /\ AutoSwitchCall(c, server.provider, server.config, currentGenerator)
  \/ \E c \in Callers : DiscoverStep(c)
  \/ \E c \in Callers : CompressStep(c)
  \/ \E c \in Callers : CreateStep(c)
  \/ \E c \in Callers : ProbeStep(c)
  \/ \E c \in Callers : ClassifyStep(c)
  \/ \E c \in Callers : Return(c)
  \/ AppendTurn

SpecServers == InitOverlapping /\ [][NextServers]_vars

\* ------------------------------------------------------------------------
\* The /model command
\* ------------------------------------------------------------------------

\* the model id that a lower-cased argument spells
ModelNamed(modelArg) == CHOOSE m \in ExplicitModels : Spell(m) = modelArg

\* modelCommand.action up to its first await: a message at once when no
\* config is loaded, the argument is blank or the provider is not known,
\* and otherwise the call of switchToStrength (weak, strong) or switchModel
ModelCommand(c, args) ==
  /\ call[c].pc = "idle"
  /\ LET modelArg == toLowerCase(trim(args))
         f == [NewFrame("none") EXCEPT !.command = "/model",
                                       !.args = args,
                                       !.modelArg = modelArg]
         Reply(message) == [f EXCEPT !.pc = "replied", !.message = message]
     IN  IF ~gcConfig.loaded
           THEN /\ call' = [call EXCEPT ![c] =
                              Reply(<<"error", "Configuration not loaded">>)]
                /\ UNCHANGED <<currentStrength, currentGenerator, currentChat>>
         ELSE IF trim(args) = << >>
           THEN /\ call' = [call EXCEPT ![c] = Reply(<<"info", "Usage">>)]
                /\ UNCHANGED <<currentStrength, currentGenerator, currentChat>>
         ELSE IF gcConfig.authType = Undefined
           THEN /\ call' = [call EXCEPT ![c] =
                     Reply(<<"error", "Unable to determine current provider configuration">>)]
                /\ UNCHANGED <<currentStrength, currentGenerator, currentChat>>
         ELSE IF modelArg \in {<<"w", "e", "a", "k">>,
                               <<"s", "t", "r", "o", "n", "g">>}
           THEN LET strength == IF modelArg = <<"w", "e", "a", "k">>
                                  THEN WEAK ELSE STRONG
                    r == switchToStrengthEntry(
                           [f EXCEPT !.op = "switchToStrength",
                                     !.strength = strength],
                           This, modelConfigs, strength, gcConfig.authType,
                           BaseConfig(gcConfig))
                IN  /\ call' = [call EXCEPT ![c] = r.frame]
                    /\ SetThis(r.this)
         ELSE /\ call' = [call EXCEPT ![c] =
                   switchModelEntry([f EXCEPT !.op = "switchModel"], This,
                                    ModelNamed(modelArg), gcConfig.authType,
                                    BaseConfig(gcConfig))]
              /\ UNCHANGED <<currentStrength, currentGenerator, currentChat>>
  /\ UNCHANGED <<modelConfigs, OPENAI_BASE_URL, gcConfig, query>>

\* variant: config.setModel is called before the switch is awaited, so the
\* session's model changes whether or not the switch succeeds
modelCommandRepliesModelSetFirst(f, session, configs) ==
  LET model == IF f.op = "switchToStrength"
                 THEN IF HasModelConfig(configs, f.provider)
                        THEN StrengthModel(configs[f.provider], f.strength)
                        ELSE session.model
               ELSE f.newModel
  IN  [frame |-> [f EXCEPT !.pc = "replied",
                           !.message =
                             IF Rejected(f)
                               THEN <<"error", "Failed to switch model",
                                      f.result>>
                               ELSE <<"info", "Switched to", f.modelArg>>],
       session |-> [session EXCEPT !.model = model]]

\* modelCommand.action after its await: the catch clause turns a rejection
\* into an error message; otherwise config.setModel is called with the model
\* of the strength (when the provider has a model config) or with the
\* argument, and the confirmation is returned
modelCommandReplies(f, session, configs) ==
  IF Rejected(f)
    THEN [frame |-> [f EXCEPT !.pc = "replied",
                              !.message = <<"error", "Failed to switch model",
                                            f.result>>],
          session |-> session]
  ELSE IF f.op = "switchToStrength"
    THEN [frame |-> [f EXCEPT !.pc = "replied",
                              !.message = <<"info", "Switched to", f.modelArg>>],
          session |-> IF HasModelConfig(configs, f.provider)
                        THEN [session EXCEPT !.model =
                               StrengthModel(configs[f.provider], f.strength)]
                        ELSE session]
  ELSE [frame |-> [f EXCEPT !.pc = "replied",
                            !.message = <<"info", "Switched to", f.modelArg>>],
        session |-> [session EXCEPT !.model = ModelNamed(f.modelArg)]]

\* the awaited service call of the command settles
ModelReply(c) ==
  /\ call[c].pc = "done"
  /\ call[c].command = "/model"
  /\ LET r == modelCommandReplies(call[c], gcConfig, modelConfigs)
     IN  /\ call' = [call EXCEPT ![c] = r.frame]
         /\ gcConfig' = r.session
  /\ UNCHANGED <<modelConfigs, currentStrength, currentGenerator, currentChat,
                 OPENAI_BASE_URL, query>>

\* the CLI shows the message that the command returned
ShowMessage(c) ==
  /\ call[c].pc = "replied"
  /\ call' = [call EXCEPT ![c] = IdleFrame]
  /\ UNCHANGED <<modelConfigs, currentStrength, currentGenerator, currentChat,
                 OPENAI_BASE_URL, gcConfig, query>>

\* a session may also have no config loaded, or a config that names no
\* provider
InitCommands ==
  /\ modelConfigs = loadModelConfigs(EmptyEnv)
  /\ currentStrength = WEAK
  /\ currentGenerator = NoGenerator
  /\ currentChat = NoChat
  /\ OPENAI_BASE_URL = << >>
  /\ gcConfig \in SessionConfigs \cup
       {SessionConfig(Undefined, Undefined, Undefined),
        [SessionConfig(Undefined, Undefined, Undefined)
           EXCEPT !.loaded = FALSE]}
  /\ call = [c \in Callers |-> IdleFrame]
  /\ query = NoQuery

\* the user issues /model commands one at a time
NextCommands ==
  \/ \E c \in Callers,
        args \in {<< >>, <<" ", " ">>, <<"w", "e", "a", "k">>,
                  <<" ", "S", "t", "r", "o", "n", "g", " ">>,
                  Spell("llama3.2"),
                  <<"G", "P", "T", "-", "4", "-", "3", "2", "k", " ">>} :
       /\ NoCallInFlight
       /\ ModelCommand(c, args)
  \/ \E c \in Callers : DiscoverStep(c)
  \/ \E c \in Callers : CompressStep(c)
  \/ \E c \in Callers : CreateStep(c)
  \/ \E c \in Callers : ProbeStep(c)
  \/ \E c \in Callers : ModelReply(c)
  \/ \E c \in Callers : ShowMessage(c)
  \/ AppendTurn

SpecCommands == InitCommands /\ [][NextCommands]_vars

\* ------------------------------------------------------------------------
\* Specification: servers that may accept a request and never answer it
\* ------------------------------------------------------------------------

\* the server takes the discovery request (for the providers that issue
\* one) and never responds. The fetch of
\* fetchContextLength carries no signal and no timeout, so its promise stays
\* pending and the switch stays suspended at that await. (The probe's fetch
\* carries AbortSignal.timeout(5000): for it, a silent server is the
\* "timeout" outcome of ProbeStep.)
DiscoveryUnanswered(c) ==
  /\ call[c].pc = "discover"
  /\ FetchesOverNetwork(call[c].provider, call[c].config.baseUrl)
  /\ call' = [call EXCEPT ![c].pc = "unanswered"]
  /\ UNCHANGED <<modelConfigs, currentStrength, currentGenerator, currentChat,
                 OPENAI_BASE_URL, gcConfig, query>>

NextUnanswered ==
  \/ Next
  \/ \E c \in Callers : DiscoveryUnanswered(c)

\* the event loop runs the continuation of every await whose promise has
\* settled; nothing obliges a caller to make a call or to collect a result
SpecUnanswered ==
  /\ Init
  /\ [][NextUnanswered]_vars
  /\ \A c \in Callers :
       /\ WF_vars(DiscoverStep(c))
       /\ WF_vars(CompressStep(c))
       /\ WF_vars(CreateStep(c))
       /\ WF_vars(ProbeStep(c))
       /\ WF_vars(ClassifyStep(c))

\* ------------------------------------------------------------------------
\* Specification of the functions: each one applied to inputs drawn from a
\* bounded set. `query` holds the function's name, its arguments and
\* what it gave
\* ------------------------------------------------------------------------

\* getStrengthForTask and getModelForTask, for the six task types, a value
\* outside the enumeration, and every provider
PolicyQueries ==
  [fn : {"policy"}, taskType : TaskType \cup {"unrecognized"},
   provider : Providers, strength : {""}, model : {<< >>}]

\* fetchContextLength, for every provider, fetch outcome and payload
DiscoveryQueries ==
  LET ContextValues ==
        {JsUndefined, JsValue("null", 0), JsNumber(0), JsNumber(-1),
         JsNumber(4096), JsNumber(8192), JsValue("fraction", 4096),
         JsValue("string", 0), JsValue("string", 2)}
      ShowPayloads ==
        {ShowPayload(FALSE, JsUndefined, top) : top \in ContextValues}
          \cup {ShowPayload(TRUE, general, top) :
                  general \in ContextValues, top \in ContextValues}
      Entries ==
        {ModelEntry(id, contextLength, maxTokens) :
           id \in {"phi-3-mini", "phi-3", "mixtral-8x7b"},
           contextLength \in {JsUndefined, JsNumber(0), JsNumber(8192)},
           maxTokens \in {JsUndefined, JsNumber(4096)}}
      ListPayloads ==
        {ListPayload(entries) :
           entries \in UNION {[1..n -> Entries] : n \in 0..MaxEntries}}
      \* no request made or a failed one, a null body, a `data` that is
      \* no array
      Malformed ==
        {FetchThrows, JsonNull,
         [ListPayload(<< >>) EXCEPT !.dataIsArray = FALSE]}
      OpenAIModels ==
        {"gpt-4-turbo", "gpt-4-turbo-preview", "gpt-4-1106-preview",
         "gpt-4", "gpt-4-32k", "gpt-3.5-turbo", "gpt-3.5-turbo-16k",
         "gpt-4o", "gpt-4-0613", "gpt-4-32k-0613",
         "gpt-4-turbo-2024-04-09", "gpt-3.5-turbo-16k-0613", "o1-mini"}
      Query(provider, model, baseUrl, response) ==
        [fn |-> "fetchContextLength", provider |-> provider,
         model |-> model, baseUrl |-> baseUrl, response |-> response,
         requests |-> 0, done |-> FALSE, result |-> JsUndefined]
  IN  {Query(USE_OLLAMA, "llama3.2", baseUrl, response) :
         baseUrl \in {Undefined, "http://localhost:11434"},
         response \in ShowPayloads \cup Malformed \cup {ListPayload(<< >>)}}
        \cup
      {Query(USE_LM_STUDIO, model, "http://localhost:1234", response) :
         model \in {"phi-3-mini", "mixtral-8x7b"},
         response \in ListPayloads \cup Malformed \cup ShowPayloads}
        \cup
      {Query(USE_OPENAI, model, "https://openrouter.ai/api/v1", response) :
         model \in {"phi-3-mini", "mixtral-8x7b"},
         response \in ListPayloads \cup Malformed}
        \cup
      {Query(USE_OPENAI, model, baseUrl, FetchThrows) :
         model \in OpenAIModels,
         baseUrl \in {Undefined, "https://api.openai.com/v1"}}
        \cup
      \* an endpoint that would list the model, were it asked
      {Query(USE_OPENAI, model, "https://api.openai.com/v1",
             ListPayload(<<ModelEntry(model, JsNumber(4096), JsUndefined)>>)) :
         model \in OpenAIModels}
        \cup
      {Query(provider, "gemini-2.5-pro", Undefined, FetchThrows) :
         provider \in {LOGIN_WITH_GOOGLE, USE_GEMINI, USE_VERTEX_AI,
                       CLOUD_SHELL}}

\* TaskEvaluationService.evaluateTaskType, for every kind of reply: the six
\* names in upper case, lower case and capitalized, with and without white
\* space around them, and texts that name no category
ClassificationQueries ==
  LET Casings(name) ==
        {name, toLowerCase(name),
         <<name[1]>> \o toLowerCase(SubSeq(name, 2, Len(name)))}
      Paddings(text) ==
        {text, <<" ">> \o text, text \o <<"\n">>,
         <<" ", "\t">> \o text \o <<" ", "\n">>}
      CategoryReplies ==
        UNION {Paddings(text) :
                 text \in UNION {Casings(Spell(k)) :
                                   k \in DOMAIN TaskTypeKeys}}
      OtherReplies ==
        {<< >>, <<" ">>, <<"\n", "\t">>,
         <<"D", "E", "B", "U", "G">>,
         <<"E", "X", "P", "L", "O", "R", "E">>,
         Spell("REVIEW") \o <<".">>,
         Spell("REVIEW") \o <<" ">> \o Spell("PLANNING"),
         Spell("PLANNING") \o <<"\n">> \o Spell("PLANNING"),
         <<"R", "E", " ", "V", "I", "E", "W">>,
         <<"T", "a", "s", "k", ":", " ">> \o Spell("DOCUMENTATION")}
      Outcomes ==
        {GenerateRejected, ResponseWithoutText,
         [ResponseWithoutText EXCEPT !.malformed = TRUE],
         [ResponseWithText(<< >>) EXCEPT !.isString = FALSE]}
          \cup {ResponseWithText(text) :
                  text \in CategoryReplies \cup OtherReplies}
  IN  {[fn |-> "evaluateTaskType", outcome |-> outcome,
        done |-> FALSE, result |-> <<"pending">>] : outcome \in Outcomes}

RECURSIVE Join(_)
\* the words of a prompt, separated by single spaces
Join(words) ==
  IF words = << >> THEN << >>
  ELSE IF Len(words) = 1 THEN Spell(words[1])
  ELSE Spell(words[1]) \o <<" ">> \o Join(Tail(words))

\* the keyword classifier, for prompts of a few words
KeywordQueries ==
  LET PromptWords ==
        {"Explain", "find", "plan", "DESIGN", "debug", "Fix", "review",
         "Optimize", "README", "docs", "write", "code", "the", "show", "me",
         "explanation", "prefix"}
  IN  {[fn |-> "evaluateTaskTypeByKeywords", userPrompt |-> Join(words),
        done |-> FALSE, result |-> ""] :
         words \in UNION {[1..n -> PromptWords] : n \in 0..MaxWords}}

\* createContentGenerator, for every provider kind with and without its
\* credential and its base URL: the argument, where the call stands, the
\* health checks it has awaited and the last one's outcome, how it settled
FactoryQueries ==
  [fn : {"createContentGenerator"},
   config : [model : {"llama3.2", "gpt-4-32k"},
             authType : AuthType \cup {UnknownProvider},
             apiKey : {Undefined, "sk-key"},
             baseUrl : {Undefined, "http://localhost:11434",
                        "http://localhost:1234"}],
   pc : {"start"}, done : {FALSE}, pending : {NoGenerator}, probes : {0},
   health : {""}, result : {<<"pending">>}, generator : {NoGenerator}]

\* the command module as it is loaded: `let autoSwitchEnabled = true`, and
\* no /auto-switch command issued yet; log holds the arguments as typed
AutoSwitchSession ==
  [fn |-> "autoSwitchCommand", autoSwitchEnabled |-> TRUE, log |-> << >>,
   message |-> << >>, done |-> FALSE]

\* variant: an argument that is neither on nor off flips the flag
autoSwitchCommandToggling(enabled, args) ==
  LET arg == toLowerCase(trim(args))
  IN  IF arg = <<"o", "n">>
        THEN [autoSwitchEnabled |-> TRUE,
              message |-> <<"info", "Auto-switching enabled">>]
      ELSE IF arg = <<"o", "f", "f">>
        THEN [autoSwitchEnabled |-> FALSE,
              message |-> <<"info", "Auto-switching disabled">>]
      ELSE [autoSwitchEnabled |-> ~enabled,
            message |-> <<"info", "Auto-switching is currently",
                          IF ~enabled THEN "enabled" ELSE "disabled">>]

\* autoSwitchCommand.action: the new value of autoSwitchEnabled and the
\* message returned
autoSwitchCommand(enabled, args) ==
  LET arg == toLowerCase(trim(args))
  IN  IF arg = <<"o", "n">>
        THEN [autoSwitchEnabled |-> TRUE,
              message |-> <<"info", "Auto-switching enabled">>]
      ELSE IF arg = <<"o", "f", "f">>
        THEN [autoSwitchEnabled |-> FALSE,
              message |-> <<"info", "Auto-switching disabled">>]
      ELSE [autoSwitchEnabled |-> enabled,
            message |-> <<"info", "Auto-switching is currently",
                          IF enabled THEN "enabled" ELSE "disabled">>]

\* the environments of loadModelConfigs: every variable unset, empty or set
EnvQueries ==
  [fn : {"loadModelConfigs"},
   env : [DOMAIN EmptyEnv ->
            {[set |-> FALSE, value |-> ""], [set |-> TRUE, value |-> ""],
             [set |-> TRUE, value |-> "qwen2.5-coder"]}],
   done : {FALSE}, configs : {<< >>}]

InitFunctions ==
  /\ modelConfigs = loadModelConfigs(EmptyEnv)
  /\ currentStrength = WEAK
  /\ currentGenerator = NoGenerator
  /\ currentChat = NoChat
  /\ OPENAI_BASE_URL = << >>
  /\ gcConfig \in {SessionConfig(USE_OLLAMA, Undefined, Undefined)}
  /\ call = [c \in Callers |-> IdleFrame]
  /\ query \in PolicyQueries \cup DiscoveryQueries \cup ClassificationQueries
                 \cup KeywordQueries \cup FactoryQueries \cup EnvQueries
                 \cup {AutoSwitchSession}

GetStrengthForTask ==
  /\ query.fn = "policy"
  /\ query.strength = ""
  /\ query' = [query EXCEPT !.strength = getStrengthForTask(query.taskType)]
  /\ UNCHANGED <<modelConfigs, currentStrength, currentGenerator, currentChat,
                 OPENAI_BASE_URL, gcConfig, call>>

GetModelForTask ==
  /\ query.fn = "policy"
  /\ query.model = << >>
  /\ query' = [query EXCEPT !.model =
                 getModelForTask(modelConfigs, query.taskType, query.provider)]
  /\ UNCHANGED <<modelConfigs, currentStrength, currentGenerator, currentChat,
                 OPENAI_BASE_URL, gcConfig, call>>

FetchContextLength ==
  /\ query.fn = "fetchContextLength"
  /\ ~query.done
  /\ query' = [query EXCEPT
                 !.done = TRUE,
                 !.requests = IF FetchesOverNetwork(query.provider,
                                                    query.baseUrl)
                                THEN 1 ELSE 0,
                 !.result = fetchContextLength(query.provider, query.model,
                                               query.baseUrl, query.response)]
  /\ UNCHANGED <<modelConfigs, currentStrength, currentGenerator, currentChat,
                 OPENAI_BASE_URL, gcConfig, call>>

EvaluateTaskType ==
  /\ query.fn = "evaluateTaskType"
  /\ ~query.done
  /\ query' = [query EXCEPT
                 !.done = TRUE,
                 !.result = evaluateTaskTypeSettles(query.outcome)]
  /\ UNCHANGED <<modelConfigs, currentStrength, currentGenerator, currentChat,
                 OPENAI_BASE_URL, gcConfig, call>>

EvaluateTaskTypeByKeywords ==
  /\ query.fn = "evaluateTaskTypeByKeywords"
  /\ ~query.done
  /\ query' = [query EXCEPT
                 !.done = TRUE,
                 !.result = evaluateTaskTypeByKeywords(query.userPrompt)]
  /\ UNCHANGED <<modelConfigs, currentStrength, currentGenerator, currentChat,
                 OPENAI_BASE_URL, gcConfig, call>>

\* createContentGenerator runs up to the health check (local servers) or to
\* its end (every other provider)
CreateContentGenerator ==
  /\ query.fn = "createContentGenerator"
  /\ query.pc = "start"
  /\ \E codeAssistOk \in BOOLEAN :
       LET config == query.config
           error == ConstructionError(config, codeAssistOk)
       IN  IF error # Constructed
             THEN /\ query' = [query EXCEPT !.pc = "done", !.done = TRUE,
                                            !.result = error]
                  /\ UNCHANGED OPENAI_BASE_URL
             ELSE /\ OPENAI_BASE_URL' =
                       EnvAfterConstruction(OPENAI_BASE_URL, config)
                  /\ LET generator == NewGenerator(FreshId, config)
                     IN  IF ProbesServer(config)
                           THEN query' = [query EXCEPT !.pc = "probe",
                                                       !.pending = generator,
                                                       !.probes = @ + 1]
                           ELSE query' = [query EXCEPT
                                            !.pc = "done", !.done = TRUE,
                                            !.result = <<"returned">>,
                                            !.generator = generator]
  /\ UNCHANGED <<modelConfigs, currentStrength, currentGenerator, currentChat,
                 gcConfig, call>>

\* `await generator.healthCheck()` resolves
HealthCheckResolves ==
  /\ query.fn = "createContentGenerator"
  /\ query.pc = "probe"
  /\ \E outcome \in ProbeOutcomes :
       LET q == [query EXCEPT !.pc = "done", !.done = TRUE,
                              !.health = outcome, !.pending = NoGenerator]
       IN  IF healthCheck(outcome)
             THEN query' = [q EXCEPT !.result = <<"returned">>,
                                     !.generator = query.pending]
             ELSE query' = [q EXCEPT !.result = ProbeError(query.config)]
  /\ UNCHANGED <<modelConfigs, currentStrength, currentGenerator, currentChat,
                 OPENAI_BASE_URL, gcConfig, call>>

\* `new ModelSwitchingService(...)`: the constructor calls loadModelConfigs
LoadModelConfigs ==
  /\ query.fn = "loadModelConfigs"
  /\ ~query.done
  /\ query' = [query EXCEPT !.configs = loadModelConfigs(query.env),
                            !.done = TRUE]
  /\ UNCHANGED <<modelConfigs, currentStrength, currentGenerator, currentChat,
                 OPENAI_BASE_URL, gcConfig, call>>

\* the user issues `/auto-switch <args>`
AutoSwitchCommand ==
  /\ query.fn = "autoSwitchCommand"
  /\ Len(query.log) < MaxCommands
  /\ \E args \in {<<"o", "n">>, <<"o", "f", "f">>, <<" ", "O", "N", " ">>,
                   <<"O", "f", "f">>, << >>, <<"o", "n", "e">>} :
       LET r == autoSwitchCommand(query.autoSwitchEnabled, args)
       IN  query' = [query EXCEPT
                       !.autoSwitchEnabled = r.autoSwitchEnabled,
                       !.message = r.message,
                       !.log = Append(@, args),
                       !.done = TRUE]
  /\ UNCHANGED <<modelConfigs, currentStrength, currentGenerator, currentChat,
                 OPENAI_BASE_URL, gcConfig, call>>

NextFunctions ==
  \/ GetStrengthForTask
  \/ GetModelForTask
  \/ FetchContextLength
  \/ EvaluateTaskType
  \/ EvaluateTaskTypeByKeywords
  \/ CreateContentGenerator
  \/ HealthCheckResolves
  \/ LoadModelConfigs
  \/ AutoSwitchCommand

SpecFunctions == InitFunctions /\ [][NextFunctions]_vars

\* ------------------------------------------------------------------------
\* Properties
\* ------------------------------------------------------------------------

Done(c, op) == call[c].pc = "done" /\ call[c].op = op

\* getCurrentGenerator() and getCurrentChat() return the objects they
\* returned when the call of frame f was made
LiveStateUntouched(f) ==
  /\ currentGenerator = f.pre.currentGenerator
  /\ currentChat.generator = f.pre.currentChat.generator
  /\ LET s == f.pre.currentChat.history
         t == currentChat.history
     IN  Len(s) <= Len(t) /\ SubSeq(t, 1, Len(s)) = s

StrongTasks == {EXPLORATION, PLANNING, TROUBLESHOOTING, REVIEW}

\* C1: a switchModel whose generator construction failed has rejected with
\* exactly the construction error, and the current generator and the
\* current chat are the ones from before the call
C1_FailedConstructionLeavesLiveState ==
  \A c \in Callers :
    (Done(c, "switchModel") /\ call[c].lastCreate # Constructed)
      => /\ call[c].result = call[c].lastCreate
         /\ Rejected(call[c])
         /\ LiveStateUntouched(call[c])

\* a switchModel made while Active has failed in its generator construction
C1_Witness ==
  \E c \in Callers :
    /\ Done(c, "switchModel")
    /\ call[c].lastCreate # Constructed
    /\ call[c].pre.currentGenerator # NoGenerator
    /\ call[c].pre.currentChat # NoChat

\* C2: after a successful switchToStrength(s, provider, cfg) the current
\* strength is s and the live generator is a new one built for the
\* provider's weak id when s is WEAK, for its strong id when s is STRONG
C2_StrengthAndModelAfterSwitch ==
  \A c \in Callers :
    (Done(c, "switchToStrength") /\ call[c].result = <<"resolved">>)
      => /\ currentStrength = call[c].strength
         /\ currentGenerator = call[c].built
         /\ currentGenerator.id # call[c].pre.currentGenerator.id
         /\ call[c].strength = WEAK
              => currentGenerator.model = modelConfigs[call[c].provider].weak
         /\ call[c].strength = STRONG
              => currentGenerator.model = modelConfigs[call[c].provider].strong

\* a switchToStrength(STRONG) made while the strength was WEAK has succeeded
C2_Witness ==
  \E c \in Callers :
    /\ Done(c, "switchToStrength")
    /\ call[c].result = <<"resolved">>
    /\ call[c].strength = STRONG
    /\ call[c].pre.currentStrength = WEAK

\* C3: switchToStrength for a provider without a ModelConfig entry rejects
\* at once: no discovery request and no generator construction were made,
\* and strength, generator and chat are unchanged
C3_NoModelConfigFailsImmediately ==
  \A c \in Callers :
    (Done(c, "switchToStrength")
       /\ call[c].provider \notin {USE_OLLAMA, USE_LM_STUDIO, USE_OPENAI})
      => /\ call[c].result =
              <<"rejected", "No model config for provider", call[c].provider>>
         /\ call[c].fetches = 0
         /\ call[c].creates = 0
         /\ currentStrength = call[c].pre.currentStrength
         /\ LiveStateUntouched(call[c])

\* switchToStrength(STRONG) was called for such a provider while the
\* strength was WEAK
C3_Witness ==
  \E c \in Callers :
    /\ Done(c, "switchToStrength")
    /\ call[c].provider = USE_GEMINI
    /\ call[c].strength = STRONG
    /\ call[c].pre.currentStrength = WEAK
    /\ Rejected(call[c])

\* C4: when the switchModel that switchToStrength delegates to fails, the
\* current strength is the requested one while generator and chat are
\* still the ones from before the call
C4_StrengthSetDespiteFailedSwitch ==
  \A c \in Callers :
    (Done(c, "switchToStrength") /\ Rejected(call[c])
       /\ call[c].provider \in {USE_OLLAMA, USE_LM_STUDIO, USE_OPENAI})
      => /\ currentStrength = call[c].strength
         /\ LiveStateUntouched(call[c])

\* a switchToStrength asking for the other strength has failed in its
\* delegated switch while a generator was live
C4_Witness ==
  \E c \in Callers :
    /\ Done(c, "switchToStrength")
    /\ Rejected(call[c])
    /\ call[c].fetches = 1
    /\ call[c].strength # call[c].pre.currentStrength
    /\ currentStrength = call[c].strength
    /\ call[c].pre.currentGenerator # NoGenerator

\* C5: switchModel never changes currentStrength, at no point of the call
\* and whatever its outcome
C5_SwitchModelKeepsStrength ==
  \A c \in Callers :
    call[c].op = "switchModel"
      => currentStrength = call[c].pre.currentStrength

\* a switchModel to the provider's strong id has succeeded while the
\* strength was WEAK
C5_Witness ==
  \E c \in Callers :
    /\ Done(c, "switchModel")
    /\ call[c].result = <<"resolved">>
    /\ call[c].provider = USE_OLLAMA
    /\ call[c].newModel = modelConfigs[USE_OLLAMA].strong
    /\ currentGenerator.model = modelConfigs[USE_OLLAMA].strong
    /\ currentStrength = WEAK

\* C6: when the strength the classified task requires is the current one,
\* autoSwitchBasedOnTask returns false, calls neither switchToStrength nor
\* switchModel, and leaves strength, generator and chat unchanged
C6_NoSwitchWhenStrengthMatches ==
  \A c \in Callers :
    (Done(c, "autoSwitchBasedOnTask") /\ call[c].taskType # ""
       /\ call[c].requiredStrength = call[c].pre.currentStrength)
      => /\ call[c].result = <<"returned", "false">>
         /\ ~call[c].delegated
         /\ call[c].fetches = 0
         /\ call[c].built = NoGenerator
         /\ currentStrength = call[c].pre.currentStrength
         /\ LiveStateUntouched(call[c])

\* a task requiring STRONG was classified while the strength was STRONG
C6_Witness ==
  \E c \in Callers :
    /\ Done(c, "autoSwitchBasedOnTask")
    /\ call[c].taskType \in StrongTasks
    /\ call[c].pre.currentStrength = STRONG
    /\ call[c].pre.currentGenerator # NoGenerator

\* C7 as stated: autoSwitchBasedOnTask rejects only when the provider has
\* no configured weak/strong pair
C7_RaisesOnlyWithoutModelConfig ==
  \A c \in Callers :
    (Done(c, "autoSwitchBasedOnTask") /\ Rejected(call[c]))
      => call[c].provider \notin {USE_OLLAMA, USE_LM_STUDIO, USE_OPENAI}

\* C7 amended: autoSwitchBasedOnTask returns true exactly when it made a
\* switch and false when it made none; it rejects with the missing-pair
\* error, or with the construction error of the temporary weak generator
\* or of the delegated switch, and with nothing else
C7_RaisesConfigOrConstructionErrors ==
  \A c \in Callers :
    Done(c, "autoSwitchBasedOnTask")
      => /\ call[c].result \in {<<"returned", "true">>, <<"returned", "false">>}
              \/ Rejected(call[c])
         /\ call[c].result = <<"returned", "true">>
              => call[c].delegated /\ currentGenerator = call[c].built
                   /\ call[c].built # NoGenerator
         /\ call[c].result = <<"returned", "false">> => ~call[c].delegated
         /\ Rejected(call[c])
              => \/ /\ call[c].provider
                         \notin {USE_OLLAMA, USE_LM_STUDIO, USE_OPENAI}
                    /\ call[c].result =
                         <<"rejected", "No model config for provider",
                           call[c].provider>>
                 \/ /\ call[c].provider
                         \in {USE_OLLAMA, USE_LM_STUDIO, USE_OPENAI}
                    /\ call[c].lastCreate # Constructed
                    /\ call[c].lastCreate # << >>
                    /\ call[c].result = call[c].lastCreate

\* the construction of the temporary weak generator has failed for a
\* provider that has a model pair
C7_Witness ==
  \E c \in Callers :
    /\ Done(c, "autoSwitchBasedOnTask")
    /\ Rejected(call[c])
    /\ call[c].provider \in {USE_OLLAMA, USE_LM_STUDIO, USE_OPENAI}
    /\ ~call[c].delegated
    /\ call[c].taskType = ""
    /\ call[c].creates = 1

\* C8: the temporary weak generator built for the classification is never
\* the current generator and never the generator of the current chat; when
\* the call is over the live generator is the one from before the call or
\* the one the delegated switch built
C8_TemporaryGeneratorNeverLive ==
  \A c \in Callers :
    call[c].temporary # NoGenerator
      => /\ currentGenerator # call[c].temporary
         /\ currentGenerator.id # call[c].temporary.id
         /\ currentChat.generator # call[c].temporary.id
         /\ call[c].pc = "done"
              => \/ currentGenerator = call[c].pre.currentGenerator
                 \/ /\ call[c].delegated
                    /\ call[c].built # NoGenerator
                    /\ currentGenerator = call[c].built

\* a call that built the temporary generator has gone on to switch to the
\* weak model
C8_Witness ==
  \E c \in Callers :
    /\ Done(c, "autoSwitchBasedOnTask")
    /\ call[c].temporary # NoGenerator
    /\ call[c].result = <<"returned", "true">>
    /\ currentGenerator.model = call[c].temporary.model

\* C9: EXPLORATION, PLANNING, TROUBLESHOOTING and REVIEW require STRONG and
\* every other value WEAK; getModelForTask returns the provider's strong id
\* for exactly those four and the weak id otherwise, which is the id of the
\* strength that getStrengthForTask gives
C9_TaskPolicy ==
  query.fn = "policy" =>
  /\ query.strength # ""
       => query.strength =
            (IF query.taskType \in StrongTasks THEN STRONG ELSE WEAK)
  /\ (query.model # << >>
        /\ query.provider \in {USE_OLLAMA, USE_LM_STUDIO, USE_OPENAI})
       => /\ query.model[1] = "returned"
          /\ query.taskType \in StrongTasks
               <=> query.model[2] = modelConfigs[query.provider].strong
          /\ query.taskType \notin StrongTasks
               <=> query.model[2] = modelConfigs[query.provider].weak
  /\ (query.strength # "" /\ query.model # << >>
        /\ query.provider \in {USE_OLLAMA, USE_LM_STUDIO, USE_OPENAI})
       => /\ query.strength = STRONG
               => query.model[2] = modelConfigs[query.provider].strong
          /\ query.strength = WEAK
               => query.model[2] = modelConfigs[query.provider].weak

\* both functions have been applied to REVIEW for the Ollama provider
C9_Witness ==
  /\ query.fn = "policy"
  /\ query.taskType = REVIEW
  /\ query.provider = USE_OLLAMA
  /\ query.strength = STRONG
  /\ query.model = <<"returned", "llama3.1:70b">>

\* C10: from WEAK with a task of the strong group, and from STRONG with
\* DOCUMENTATION or IMPLEMENTATION, when no generator construction fails
\* autoSwitchBasedOnTask returns true, the strength is the required one and
\* the live generator is a new one built for the provider's id of that
\* strength
C10_AutoSwitchPerformsSwitch ==
  \A c \in Callers :
    (Done(c, "autoSwitchBasedOnTask") /\ call[c].taskType # ""
       /\ call[c].provider \in {USE_OLLAMA, USE_LM_STUDIO, USE_OPENAI}
       /\ call[c].lastCreate \in {<< >>, Constructed}
       /\ \/ call[c].pre.currentStrength = WEAK
               /\ call[c].taskType \in StrongTasks
          \/ call[c].pre.currentStrength = STRONG
               /\ call[c].taskType \in {DOCUMENTATION, IMPLEMENTATION})
      => /\ call[c].result = <<"returned", "true">>
         /\ currentStrength # call[c].pre.currentStrength
         /\ currentGenerator = call[c].built
         /\ currentGenerator.id # call[c].pre.currentGenerator.id
         /\ call[c].pre.currentStrength = WEAK
              => /\ currentStrength = STRONG
                 /\ currentGenerator.model
                      = modelConfigs[call[c].provider].strong
         /\ call[c].pre.currentStrength = STRONG
              => /\ currentStrength = WEAK
                 /\ currentGenerator.model
                      = modelConfigs[call[c].provider].weak

\* on Ollama at WEAK, a TROUBLESHOOTING task has made the service switch to
\* llama3.1:70b
C10_Witness ==
  \E c \in Callers :
    /\ Done(c, "autoSwitchBasedOnTask")
    /\ call[c].provider = USE_OLLAMA
    /\ call[c].pre.currentStrength = WEAK
    /\ call[c].taskType = TROUBLESHOOTING
    /\ call[c].result = <<"returned", "true">>
    /\ currentStrength = STRONG
    /\ currentGenerator.model = "llama3.1:70b"

\* the call of function fn has settled
Settled(fn) == query.fn = fn /\ query.done

\* a context field that holds something: not missing, null, 0 or ''
Present(x) ==
  x \notin {JsUndefined, JsValue("null", 0), JsNumber(0), JsValue("string", 0)}

\* C11: whatever the provider, the fetch outcome and the values of the
\* payload's context fields, fetchContextLength resolves with a positive
\* integer
C11_AlwaysPositiveInteger ==
  Settled("fetchContextLength")
    => (query.result.t = "number" /\ query.result.v > 0)

\* C12: for Ollama the result is the nested general.context_length if
\* present, otherwise the top-level context_length if present, otherwise
\* 32768; a payload without a recognizable context field gives 32768
C12_OllamaFallbackChain ==
  (Settled("fetchContextLength") /\ query.provider = USE_OLLAMA)
    => LET r == query.response
           nested == IF r.threw \/ r.isNull \/ ~r.hasModelInfo
                       THEN JsUndefined ELSE r.generalContextLength
           top == IF r.threw \/ r.isNull THEN JsUndefined
                  ELSE r.context_length
       IN  /\ Present(nested) => query.result = nested
           /\ (~Present(nested) /\ Present(top)) => query.result = top
           /\ (~Present(nested) /\ ~Present(top))
                => query.result = JsNumber(32768)

\* an Ollama payload whose nested field holds 0 and whose top-level field
\* is present has been resolved to the top-level value
C12_Witness ==
  /\ Settled("fetchContextLength")
  /\ query.provider = USE_OLLAMA
  /\ query.response.hasModelInfo
  /\ query.response.generalContextLength = JsNumber(0)
  /\ query.response.context_length = JsNumber(8192)
  /\ query.result = JsNumber(8192)

\* C13: for LM Studio the result comes only from the listing entry whose id
\* equals the requested id (its context_length if present, else its
\* max_tokens if present, else 32768); without such an entry it is 32768
\* whatever the other entries hold
C13_LMStudioExactIdMatch ==
  (Settled("fetchContextLength") /\ query.provider = USE_LM_STUDIO
     /\ ~query.response.threw /\ ~query.response.isNull
     /\ query.response.hasData /\ query.response.dataIsArray)
    => LET data == query.response.data
           hits == {i \in 1..Len(data) : data[i].id = query.model}
       IN  IF hits = {}
             THEN query.result = JsNumber(32768)
             ELSE \E i \in hits :
                    /\ Present(data[i].context_length)
                         => query.result = data[i].context_length
                    /\ (~Present(data[i].context_length)
                          /\ Present(data[i].max_tokens))
                         => query.result = data[i].max_tokens
                    /\ (~Present(data[i].context_length)
                          /\ ~Present(data[i].max_tokens))
                         => query.result = JsNumber(32768)

\* a listing that holds only an entry whose id is a prefix of the requested
\* id, with a context length, has been resolved to the default
C13_Witness ==
  /\ Settled("fetchContextLength")
  /\ query.provider = USE_LM_STUDIO
  /\ query.model = "phi-3-mini"
  /\ query.response.hasData /\ query.response.dataIsArray
  /\ Len(query.response.data) = 1
  /\ query.response.data[1].id = "phi-3"
  /\ query.response.data[1].context_length = JsNumber(8192)
  /\ query.result = JsNumber(32768)

\* C14: the static OpenAI table answers with the value of the longest table
\* key contained in the model id (the key's own value for an id equal to a
\* key), and with 32768 when the id contains no key
C14_MostSpecificKeyWins ==
  (Settled("fetchContextLength") /\ query.provider = USE_OPENAI
     /\ ~FetchesOverNetwork(query.provider, query.baseUrl))
    => LET key(i) == Spell(contextLengths[i][1])
           hits == {i \in 1..Len(contextLengths) :
                      Includes(Spell(query.model), key(i))}
           longest == CHOOSE i \in hits :
                        \A j \in hits : Len(key(j)) <= Len(key(i))
       IN  query.result = JsNumber(IF hits = {} THEN 32768
                                   ELSE contextLengths[longest][2])

\* text is name, up to the case of its letters and to white space before
\* and after it
NamesCategory(text, name) ==
  \E i \in 1..(Len(text) + 1) :
    /\ i + Len(name) - 1 <= Len(text)
    /\ \A n \in 1..Len(name) :
         name[n] \in {text[i + n - 1], UpperChar(text[i + n - 1])}
    /\ \A j \in 1..Len(text) :
         (j < i \/ j > i + Len(name) - 1) => text[j] \in WhiteSpace

\* C15: a reply that equals one of the six category names, ignoring case and
\* surrounding white space, is classified as that category; every other
\* reply (unrecognized or empty text, no text, text that is no string) is
\* classified as IMPLEMENTATION
C15_ReplyNormalizedAndMatched ==
  (Settled("evaluateTaskType")
     /\ ~query.outcome.rejected /\ ~query.outcome.malformed)
    => LET o == query.outcome
           named == {k \in DOMAIN TaskTypeKeys :
                       o.hasText /\ o.isString
                         /\ NamesCategory(o.text, Spell(k))}
       IN  /\ \A k \in named : query.result = <<"returned", TaskTypeKeys[k]>>
           /\ named = {} => query.result = <<"returned", IMPLEMENTATION>>

\* the reply " \tReview \n" has been classified as REVIEW
C15_Witness ==
  /\ Settled("evaluateTaskType")
  /\ query.outcome.hasText /\ query.outcome.isString
  /\ query.outcome.text =
       <<" ", "\t", "R", "e", "v", "i", "e", "w", " ", "\n">>
  /\ query.result = <<"returned", REVIEW>>

\* C16: evaluateTaskType never rejects: a generation request that rejects,
\* or that resolves with a malformed response, ends in IMPLEMENTATION
C16_ClassificationNeverRejects ==
  Settled("evaluateTaskType")
    => /\ query.result[1] = "returned"
       /\ query.result[2] \in TaskType
       /\ (query.outcome.rejected \/ query.outcome.malformed)
            => query.result = <<"returned", IMPLEMENTATION>>

\* a rejected generation request has been absorbed
C16_Witness ==
  /\ Settled("evaluateTaskType")
  /\ query.outcome.rejected
  /\ query.result = <<"returned", IMPLEMENTATION>>

\* C17: the keyword classifier answers with the category of the first check,
\* in the order exploration, planning, troubleshooting, review,
\* documentation, of which the lowercased prompt contains a keyword, and
\* with IMPLEMENTATION when it contains none
C17_FirstKeywordCheckWins ==
  Settled("evaluateTaskTypeByKeywords")
    => LET order == <<EXPLORATION, PLANNING, TROUBLESHOOTING, REVIEW,
                      DOCUMENTATION>>
           hits == {i \in 1..Len(order) :
                      \E k \in Keywords[order[i]] :
                        Includes(toLowerCase(query.userPrompt), k)}
       IN  /\ \A i \in hits :
                 (\A j \in hits : i <= j) => query.result = order[i]
           /\ hits = {} => query.result = IMPLEMENTATION

\* the prompt "Optimize Fix", with a review and a troubleshooting keyword,
\* has been classified as TROUBLESHOOTING
C17_Witness ==
  /\ Settled("evaluateTaskTypeByKeywords")
  /\ query.userPrompt = Spell("Optimize") \o <<" ">> \o Spell("Fix")
  /\ query.result = TROUBLESHOOTING

\* C18: for Ollama and LM Studio createContentGenerator returns a generator
\* only after a liveness probe that succeeded; when the probe fails (status
\* not OK, network error, timeout) it raises an error that names the base
\* URL and the remedy, and returns no generator
C18_LocalGeneratorProbedBeforeReturn ==
  (Settled("createContentGenerator") /\ IsLocalServer(query.config.authType))
    => /\ query.result = <<"returned">>
            => (query.probes = 1 /\ query.health = "ok"
                  /\ query.generator # NoGenerator)
       /\ (query.probes = 1 /\ query.health # "ok")
            => /\ query.result[1] = "rejected"
               /\ Len(query.result) = 4
               /\ query.result[3] = query.config.baseUrl
               /\ query.result[4] \in
                    {"Please ensure Ollama is running with \"ollama serve\"",
                     "Please ensure LM Studio server is running"}
               /\ query.generator = NoGenerator

\* the probe of an LM Studio server has timed out and the call has failed
C18_Witness ==
  /\ Settled("createContentGenerator")
  /\ query.config.authType = USE_LM_STUDIO
  /\ query.health = "timeout"
  /\ query.result[1] = "rejected"

\* the credential or base URL of config that its provider kind needs is
\* absent
LacksCredential(config) ==
  \/ config.authType \in {USE_GEMINI, USE_VERTEX_AI, USE_OPENAI}
       /\ config.apiKey = Undefined
  \/ IsLocalServer(config.authType) /\ config.baseUrl = Undefined

\* createContentGenerator has failed with a configuration error
ConfigurationError ==
  /\ query.result \in {<<"rejected", "OpenAI API key is required">>,
                       <<"rejected", "Ollama base URL is required">>,
                       <<"rejected", "LM Studio base URL is required">>}
  /\ query.generator = NoGenerator
  /\ query.probes = 0

C20_OnlyLocalServersProbed ==
  query.fn = "createContentGenerator"
    => /\ (query.probes > 0 \/ query.pc = "probe")
            => IsLocalServer(query.config.authType)
       /\ (query.config.authType \notin {USE_OLLAMA, USE_LM_STUDIO})
            => (query.probes = 0 /\ query.health = "")

\* a generator for the OpenAI-compatible provider with a base URL has been
\* returned without a probe
C20_Witness ==
  /\ Settled("createContentGenerator")
  /\ query.config.authType = USE_OPENAI
  /\ query.config.baseUrl # Undefined
  /\ query.result = <<"returned">>
  /\ query.generator # NoGenerator
  /\ query.probes = 0

\* in this step the switch of caller c installs the generator it built
Commits(c) ==
  /\ call[c].built = NoGenerator
  /\ call'[c].built # NoGenerator

\* C21: a switch made from Active gives the new chat exactly the history
\* that the snapshot took from the old chat, turn for turn and in order
C21_RoundTripKeepsHistory ==
  [][\A c \in Callers :
       (Commits(c) /\ call[c].snapshot.taken)
         => /\ currentChat'.history = call[c].snapshot.history
            /\ currentChat'.generator = call'[c].built.id]_vars

\* a switchModel whose snapshot held two turns has succeeded, and the new
\* chat holds them
C21_Witness ==
  \E c \in Callers :
    /\ Done(c, "switchModel")
    /\ call[c].snapshot.taken
    /\ call[c].snapshot.history = <<"user", "model">>
    /\ call[c].result = <<"resolved">>
    /\ currentChat.generator = call[c].built.id
    /\ currentChat.history = call[c].snapshot.history

\* the least number of tokens a history can take: a turn is never empty
TokenCount(history) == Len(history)

\* C22: after a successful switch made from Active, the history carried into
\* the new chat is a snapshot that fits the context length resolved for the
\* new model: the compression step holds it to that limit
C22_CarriedHistoryFitsLimit ==
  \A c \in Callers :
    (/\ call[c].pc = "done"
     /\ call[c].built # NoGenerator
     /\ call[c].snapshot.taken)
      => /\ call[c].compressed.taken
         /\ call[c].limit.t = "number"
         /\ TokenCount(call[c].compressed.history) <= call[c].limit.v

\* C23: whenever an operation is suspended or a getter can run, the current
\* generator and the current chat are a matched pair (both absent, or the
\* chat bound to the current generator), and the pair is replaced only in
\* the last step of a switch, when all of its fallible work has succeeded
C23_ReplacementLastAndAtomic ==
  /\ [](\/ currentGenerator = NoGenerator /\ currentChat = NoChat
        \/ /\ currentGenerator # NoGenerator
           /\ currentChat # NoChat
           /\ currentChat.generator = currentGenerator.id)
  /\ [][(\/ currentGenerator' # currentGenerator
         \/ currentChat'.generator # currentChat.generator)
          => \E c \in Callers :
               /\ Commits(c)
               /\ call'[c].pc = "done"
               /\ ~Rejected(call'[c])
               /\ call'[c].lastCreate = Constructed
               /\ currentGenerator' = call'[c].built
               /\ currentChat'.generator = call'[c].built.id]_vars

\* a switch from Active is suspended in its liveness probe: the generator it
\* has constructed is not yet current, and the old pair is still in place
C23_Witness ==
  \E c \in Callers :
    /\ call[c].pc = "probe"
    /\ call[c].snapshot.taken
    /\ currentGenerator # NoGenerator
    /\ call[c].pending.id # currentGenerator.id
    /\ currentChat.generator = currentGenerator.id

\* C24: every switch that has started eventually completes, resolved or
\* rejected, also when the server takes requests and never answers them
C24_EverySwitchCompletes ==
  \A c \in Callers :
    (call[c].pc = "discover") ~> (call[c].pc = "done")

\* C25: a discovery that fails (network error, malformed body) does not
\* decide the outcome of the switch: construction is still attempted, and
\* when it succeeds the switch resolves and installs the new generator with
\* the chat that the snapshot (or its absence) dictates, as after a
\* successful discovery; when it fails the switch rejects with its error
C25_DiscoveryFailureDoesNotDecide ==
  [][\A c \in Callers :
       (/\ call'[c].discoveryFailed
        /\ call[c].pc # "done"
        /\ call'[c].pc = "done")
         => /\ call'[c].creates > 0
            /\ call'[c].lastCreate # Constructed
                 => call'[c].result = call'[c].lastCreate
            /\ call'[c].lastCreate = Constructed
                 => /\ ~Rejected(call'[c])
                    /\ currentGenerator' = call'[c].built
                    /\ currentGenerator'.model = call[c].newModel
                    /\ currentChat' = [generator |-> call'[c].built.id,
                                       history |-> call[c].snapshot.history]]_vars

\* a switchModel from Active whose discovery request failed has resolved
\* and installed the generator it built
C25_Witness ==
  \E c \in Callers :
    /\ Done(c, "switchModel")
    /\ call[c].discoveryFailed
    /\ call[c].snapshot.taken
    /\ call[c].result = <<"resolved">>
    /\ currentGenerator = call[c].built
    /\ currentChat.generator = call[c].built.id

\* C26: a switchModel made with no current chat or no current generator
\* takes no snapshot, skips the compression step and is rejected by nothing
\* but generator construction; when construction succeeds it resolves and
\* leaves a new chat with an empty history, bound to the new generator
C26_FreshStartWithoutSession ==
  /\ [](\A c \in Callers :
          (/\ call[c].op = "switchModel"
           /\ \/ call[c].pre.currentChat = NoChat
              \/ call[c].pre.currentGenerator = NoGenerator)
            => /\ ~call[c].snapshot.taken
               /\ ~call[c].compressed.taken
               /\ call[c].pc # "compress"
               /\ Rejected(call[c])
                    => /\ call[c].creates > 0
                       /\ call[c].lastCreate # Constructed
                       /\ call[c].result = call[c].lastCreate)
  /\ [][\A c \in Callers :
          (/\ Commits(c)
           /\ call[c].op = "switchModel"
           /\ \/ call[c].pre.currentChat = NoChat
              \/ call[c].pre.currentGenerator = NoGenerator)
            => /\ call'[c].result = <<"resolved">>
               /\ currentGenerator' = call'[c].built
               /\ currentChat' = [generator |-> call'[c].built.id,
                                  history |-> << >>]]_vars

\* a switchModel made without a session has resolved: the service holds the
\* generator it built and an empty chat bound to it
C26_Witness ==
  \E c \in Callers :
    /\ Done(c, "switchModel")
    /\ call[c].pre.currentGenerator = NoGenerator
    /\ call[c].pre.currentChat = NoChat
    /\ call[c].result = <<"resolved">>
    /\ currentGenerator = call[c].built
    /\ currentChat = [generator |-> call[c].built.id, history |-> << >>]

\* C27: a newly constructed service has strength WEAK and neither a
\* generator nor a chat, and getCurrentGenerator() and getCurrentChat() keep
\* returning null until a switch succeeds
C27_FreshServiceHasNoSession ==
  /\ currentStrength = WEAK
  /\ currentGenerator = NoGenerator
  /\ currentChat = NoChat
  /\ [][(/\ currentGenerator = NoGenerator
         /\ currentChat = NoChat
         /\ ~\E c \in Callers : Commits(c) /\ ~Rejected(call'[c]))
          => /\ currentGenerator' = NoGenerator
             /\ currentChat' = NoChat]_vars

\* the first call made on a new service was rejected: the getters still
\* return null, and the strength is still WEAK
C27_Witness ==
  \E c \in Callers :
    /\ call[c].pc = "done"
    /\ Rejected(call[c])
    /\ call[c].pre.currentGenerator = NoGenerator
    /\ call[c].creates > 0
    /\ currentStrength = WEAK
    /\ currentGenerator = NoGenerator
    /\ currentChat = NoChat

\* C28: whatever the environment (each _MODEL_WEAK/_MODEL_STRONG variable
\* unset, empty or set), the model-config map holds entries for Ollama,
\* LM Studio and the OpenAI-compatible provider and for no other provider
\* (getModelConfig returns undefined for the rest), and each entry's weak and
\* strong ids are non-empty: the variable's value when it is set and not
\* empty, the built-in default otherwise
C28_ThreeProvidersConfigured ==
  Settled("loadModelConfigs") =>
    LET configs == query.configs
        Expected(variable, default) ==
          IF variable.set /\ variable.value # "" THEN variable.value
          ELSE default
    IN  /\ \A p \in Providers :
             HasModelConfig(configs, p)
               <=> p \in {USE_OLLAMA, USE_LM_STUDIO, USE_OPENAI}
        /\ \A p \in DOMAIN configs :
             configs[p].weak # "" /\ configs[p].strong # ""
        /\ configs[USE_OLLAMA] =
             [weak |-> Expected(query.env.OLLAMA_MODEL_WEAK, "llama3.2"),
              strong |-> Expected(query.env.OLLAMA_MODEL_STRONG,
                                  "llama3.1:70b")]
        /\ configs[USE_LM_STUDIO] =
             [weak |-> Expected(query.env.LM_STUDIO_MODEL_WEAK, "phi-3-mini"),
              strong |-> Expected(query.env.LM_STUDIO_MODEL_STRONG,
                                  "mixtral-8x7b")]
        /\ configs[USE_OPENAI] =
             [weak |-> Expected(query.env.OPENAI_MODEL_WEAK,
                                "mistralai/Mistral-7B-Instruct-v0.2"),
              strong |-> Expected(query.env.OPENAI_MODEL_STRONG,
                                  "anthropic/claude-3.5-sonnet")]

\* the configs are loaded with OLLAMA_MODEL_WEAK set to the empty string,
\* LM_STUDIO_MODEL_STRONG unset and OPENAI_MODEL_STRONG set to a model id
C28_Witness ==
  /\ Settled("loadModelConfigs")
  /\ query.env.OLLAMA_MODEL_WEAK = [set |-> TRUE, value |-> ""]
  /\ ~query.env.LM_STUDIO_MODEL_STRONG.set
  /\ query.env.OPENAI_MODEL_STRONG = [set |-> TRUE, value |-> "qwen2.5-coder"]
  /\ query.configs[USE_OLLAMA].weak = "llama3.2"
  /\ query.configs[USE_LM_STUDIO].strong = "mixtral-8x7b"
  /\ query.configs[USE_OPENAI].strong = "qwen2.5-coder"

\* C30: auto-switch is a flag that starts on; isAutoSwitchEnabled() returns
\* what the most recent on or off command set (on when there has been none),
\* and a command with any other argument leaves the flag as it was and
\* reports its value. on and off are read as the code reads them, without
\* regard to case or surrounding white space
C30_AutoSwitchFlagFollowsCommands ==
  (query.fn = "autoSwitchCommand") =>
    LET on == {<<"o", "n">>, <<" ", "O", "N", " ">>}
        off == {<<"o", "f", "f">>, <<"O", "f", "f">>}
        log == query.log
        setting == {i \in 1..Len(log) : log[i] \in on \cup off}
        latest == CHOOSE i \in setting : \A j \in setting : j <= i
        isAutoSwitchEnabled == query.autoSwitchEnabled
    IN  /\ isAutoSwitchEnabled \in BOOLEAN
        /\ isAutoSwitchEnabled = (setting = {} \/ log[latest] \in on)
        /\ (log # << >> /\ log[Len(log)] \in on)
             => query.message = <<"info", "Auto-switching enabled">>
        /\ (log # << >> /\ log[Len(log)] \in off)
             => query.message = <<"info", "Auto-switching disabled">>
        /\ (log # << >> /\ log[Len(log)] \notin on \cup off)
             => query.message =
                  <<"info", "Auto-switching is currently",
                    IF isAutoSwitchEnabled THEN "enabled" ELSE "disabled">>

\* auto-switch was turned off, and a later command with another argument
\* reported it as disabled and left it off
C30_Witness ==
  /\ query.fn = "autoSwitchCommand"
  /\ query.log = <<<<"o", "n">>, <<"o", "f", "f">>, <<"o", "n", "e">>>>
  /\ ~query.autoSwitchEnabled
  /\ query.message = <<"info", "Auto-switching is currently", "disabled">>

\* C29: a /model command that attempts a switch returns one message. It is a
\* confirmation when the switch succeeded, and the session config's model is
\* then the model id that was switched to; it is an error message when the
\* switch threw, and config.setModel is then not called: the session
\* config's model stays as it was. Nothing else changes the session config
C29_OneMessagePerSwitchAttempt ==
  /\ [](\A c \in Callers :
          (call[c].pc = "replied" /\ call[c].op # "none")
            => /\ call[c].message # << >>
               /\ call[c].message[1] =
                    (IF Rejected(call[c]) THEN "error" ELSE "info")
               /\ ~Rejected(call[c])
                    => call[c].message =
                         <<"info", "Switched to", call[c].modelArg>>)
  /\ [][/\ \A c \in Callers :
             (call[c].pc = "done" /\ call'[c].pc = "replied")
               => IF Rejected(call[c])
                    THEN gcConfig' = gcConfig
                    ELSE /\ call[c].built # NoGenerator
                         /\ gcConfig' =
                              [gcConfig EXCEPT !.model = call[c].built.model]
        /\ gcConfig' # gcConfig
             => \E c \in Callers :
                  /\ call[c].pc = "done"
                  /\ call'[c].pc = "replied"
                  /\ ~Rejected(call[c])]_vars

\* `/model  Strong ` has been confirmed: the strong model of the provider
\* is the current generator's model and the session config's model
C29_Witness ==
  \E c \in Callers :
    /\ call[c].pc = "replied"
    /\ call[c].op = "switchToStrength"
    /\ call[c].message =
         <<"info", "Switched to", <<"s", "t", "r", "o", "n", "g">>>>
    /\ call[c].built.model = "llama3.1:70b"
    /\ currentGenerator = call[c].built
    /\ gcConfig.model = "llama3.1:70b"

\* C31: switches are not serialized. A switchToStrength assigns the strength
\* when it is called and the generator when it commits, whatever other call
\* is in flight, and neither step touches what the other wrote; so two
\* overlapping calls can end with the strength of one and the model of the
\* other
C31_StrengthAndGeneratorWrittenApart ==
  [][\A c \in Callers :
       /\ (/\ call[c].pc = "idle"
           /\ call'[c].op = "switchToStrength"
           /\ call'[c].pc = "discover")
            => /\ currentStrength' = call'[c].strength
               /\ currentGenerator' = currentGenerator
       /\ Commits(c)
            => /\ currentGenerator' = call'[c].built
               /\ currentStrength' = currentStrength]_vars

\* two switchToStrength calls with different strengths overlapped and both
\* resolved: the strength is the one requested by the call made second, the
\* live generator is the model of the other call
C31_Witness ==
  \E c, d \in Callers :
    /\ Done(c, "switchToStrength") /\ call[c].result = <<"resolved">>
    /\ Done(d, "switchToStrength") /\ call[d].result = <<"resolved">>
    /\ call[c].strength # call[d].strength
    /\ currentStrength = call[c].strength
    /\ currentGenerator = call[d].built
    /\ currentGenerator.model =
         StrengthModel(modelConfigs[gcConfig.authType], call[d].strength)
    /\ currentGenerator.model #
         StrengthModel(modelConfigs[gcConfig.authType], currentStrength)

\* C32: a snapshot belongs to the switch that took it. It is written only by
\* step 1 of its own call, from the chat that is live at that moment, no
\* step of another call changes it, and the history a call rehydrates is the
\* history of its own snapshot
C32_SnapshotOwnedByItsSwitch ==
  [][\A c \in Callers :
       /\ call'[c].snapshot # call[c].snapshot
            => /\ call[c].pc = "idle"
               /\ call'[c].snapshot = [taken |-> TRUE,
                                       history |-> currentChat.history]
       /\ (call[c].pc # "idle" /\ call'[c].pc # "idle")
            => call'[c].snapshot = call[c].snapshot
       /\ (Commits(c) /\ call[c].snapshot.taken)
            => currentChat'.history = call[c].snapshot.history]_vars

\* two switchModel calls overlapped and both resolved: the call that
\* committed last took its snapshot first, when the chat was shorter, and
\* the live chat holds that shorter history
C32_Witness ==
  \E c, d \in Callers :
    /\ Done(c, "switchModel") /\ call[c].result = <<"resolved">>
    /\ Done(d, "switchModel") /\ call[d].result = <<"resolved">>
    /\ call[c].snapshot.taken /\ call[d].snapshot.taken
    /\ Len(call[c].snapshot.history) < Len(call[d].snapshot.history)
    /\ currentGenerator = call[c].built
    /\ currentChat.generator = call[c].built.id
    /\ currentChat.history = call[c].snapshot.history

\* C39: a turn added to the live chat while a switch is suspended between
\* its snapshot and its commit is not in the chat after the commit: the
\* committed history is the history of the snapshot, shorter than the one
\* it replaces
C39_TurnsAddedDuringSwitchAreLost ==
  [][\A c \in Callers :
       (/\ Commits(c)
        /\ call[c].snapshot.taken
        /\ Len(currentChat.history) > Len(call[c].snapshot.history))
         => /\ currentChat'.history = call[c].snapshot.history
            /\ call'[c].replaced = currentChat.history
            /\ Len(currentChat'.history) < Len(call'[c].replaced)]_vars

\* a switchModel took its snapshot after the first turn, the second turn was
\* added while it was suspended, and the chat it committed holds one turn
C39_Witness ==
  \E c \in Callers :
    /\ Done(c, "switchModel")
    /\ call[c].result = <<"resolved">>
    /\ call[c].snapshot = [taken |-> TRUE, history |-> <<"user">>]
    /\ call[c].replaced = <<"user", "model">>
    /\ currentChat = [generator |-> call[c].built.id, history |-> <<"user">>]

\* C33: '/model <name>' switches to the id as typed: the id given to
\* switchModel, and the one given to config.setModel once the switch has
\* succeeded, is the argument with only the surrounding whitespace removed,
\* upper-case letters included
C33_ModelIdPassedAsTyped ==
  \A c \in Callers :
    (call[c].command = "/model" /\ call[c].op = "switchModel")
      => /\ Spell(call[c].newModel) = trim(call[c].args)
         /\ (call[c].pc = "replied" /\ call[c].message[1] = "info")
              => Spell(gcConfig.model) = trim(call[c].args)

\* C34 as stated: with an aggregator base URL the OpenAI-compatible lookup
\* gives, for the same payload and model id, the context length that the
\* LM Studio lookup gives
C34_AggregatorLookupAsLMStudio ==
  (/\ Settled("fetchContextLength")
   /\ query.provider = USE_OPENAI
   /\ FetchesOverNetwork(query.provider, query.baseUrl))
    => query.result = fetchContextLength(USE_LM_STUDIO, query.model,
                                         query.baseUrl, query.response)

\* C34, amended: the aggregator lookup takes the first entry whose id is the
\* model id, as the LM Studio lookup does, but reads its context_length
\* only; the two lookups differ exactly when that entry holds no
\* context_length and a max_tokens, where LM Studio gives max_tokens and the
\* aggregator 32768
C34_AggregatorLookupReadsContextLengthOnly ==
  (/\ Settled("fetchContextLength")
   /\ query.provider = USE_OPENAI
   /\ FetchesOverNetwork(query.provider, query.baseUrl))
    => LET response == query.response
           listed == /\ ~response.threw /\ ~response.isNull
                     /\ response.hasData /\ response.dataIsArray
           hits == IF listed
                     THEN {i \in 1..Len(response.data) :
                             response.data[i].id = query.model}
                     ELSE {}
           first == CHOOSE i \in hits : \A j \in hits : i <= j
           lmStudio == fetchContextLength(USE_LM_STUDIO, query.model,
                                          query.baseUrl, response)
       IN  IF hits # {} /\ Truthy(response.data[first].context_length)
             THEN /\ query.result = response.data[first].context_length
                  /\ lmStudio = query.result
           ELSE /\ query.result = DefaultContextLength
                /\ IF hits # {} /\ Truthy(response.data[first].max_tokens)
                     THEN lmStudio = response.data[first].max_tokens
                     ELSE lmStudio = query.result

\* the aggregator lists the model with a max_tokens of 4096 and no
\* context_length: the lookup gave 32768
C34_Witness ==
  /\ Settled("fetchContextLength")
  /\ query.provider = USE_OPENAI
  /\ query.baseUrl = "https://openrouter.ai/api/v1"
  /\ query.response =
       ListPayload(<<ModelEntry(query.model, JsUndefined, JsNumber(4096))>>)
  /\ query.result = DefaultContextLength

\* C35: fetchContextLength issues no network request for the
\* OpenAI-compatible provider when the base URL is absent or names no
\* aggregator, nor for any provider other than Ollama, LM Studio and
\* OpenAI-compatible; its result then comes from the static table or is
\* 32768, whatever the endpoint would have answered
C35_NoRequestOutsideLocalAndAggregator ==
  (/\ Settled("fetchContextLength")
   /\ query.provider \notin {USE_OLLAMA, USE_LM_STUDIO}
   /\ query.provider = USE_OPENAI
        => \/ query.baseUrl = Undefined
           \/ ~Includes(Spell(query.baseUrl), Spell("openrouter")))
    => /\ query.requests = 0
       /\ query.result \in
            {JsNumber(contextLengths[i][2]) : i \in DOMAIN contextLengths}
              \cup {JsNumber(32768)}
       /\ query.provider # USE_OPENAI => query.result = JsNumber(32768)
       /\ query.provider = USE_OPENAI
            => query.result = getOpenAIContextLength(query.model)

\* the endpoint of api.openai.com would have listed gpt-4-turbo with 4096
\* tokens: it was not asked and the table's 128000 was returned
C35_Witness ==
  /\ Settled("fetchContextLength")
  /\ query.provider = USE_OPENAI
  /\ query.baseUrl = "https://api.openai.com/v1"
  /\ query.model = "gpt-4-turbo"
  /\ query.response =
       ListPayload(<<ModelEntry("gpt-4-turbo", JsNumber(4096), JsUndefined)>>)
  /\ query.requests = 0
  /\ query.result = JsNumber(128000)

\* C36: the generator that autoSwitchBasedOnTask classifies with is one
\* configured for the provider's weak model, in every reachable state, when
\* the caller passes the service's live generator
C36_EvaluatorIsWeakModel ==
  \A c \in Callers :
    (/\ call[c].op = "autoSwitchBasedOnTask"
     /\ call[c].pc = "classify"
     /\ HasModelConfig(modelConfigs, call[c].provider)
     /\ call[c].evaluator \in {currentGenerator, call[c].temporary})
      => call[c].evaluator.model = modelConfigs[call[c].provider].weak

\* C37: whenever autoSwitchBasedOnTask returns false in a session with a
\* live generator, the model of the live generator is the one the provider
\* has configured for the required strength
C37_NoSwitchMeansRequiredModelIsLive ==
  \A c \in Callers :
    (/\ Done(c, "autoSwitchBasedOnTask")
     /\ call[c].result = <<"returned", "false">>
     /\ HasModelConfig(modelConfigs, call[c].provider)
     /\ currentGenerator # NoGenerator)
      => currentGenerator.model =
           StrengthModel(modelConfigs[call[c].provider],
                         call[c].requiredStrength)

\* C38: a classification that fails or names no task type changes the live
\* model of a session on the strong model: autoSwitchBasedOnTask, called
\* with currentStrength STRONG, takes the task for IMPLEMENTATION and
\* delegates to switchToStrength(WEAK); when that switch succeeds the call
\* returns true and the provider's weak model is live
C38_FailedClassificationSwitchesToWeak ==
  \A c \in Callers :
    (/\ call[c].op = "autoSwitchBasedOnTask"
     /\ call[c].pre.currentStrength = STRONG
     /\ call[c].taskType # ""
     /\ ~call[c].replyNamesTask)
      => /\ call[c].taskType = IMPLEMENTATION
         /\ call[c].requiredStrength = WEAK
         /\ call[c].delegated
         /\ call[c].newModel = modelConfigs[call[c].provider].weak
         /\ currentStrength = WEAK
         /\ (call[c].pc = "done" /\ ~Rejected(call[c]))
              => /\ call[c].result = <<"returned", "true">>
                 /\ currentGenerator = call[c].built
                 /\ currentGenerator.model =
                      modelConfigs[call[c].provider].weak
                 /\ currentGenerator # call[c].pre.currentGenerator

\* the strong model was live, the classification named no task type, and
\* the call has returned true with the weak model live
C38_Witness ==
  \E c \in Callers :
    /\ Done(c, "autoSwitchBasedOnTask")
    /\ call[c].pre.currentStrength = STRONG
    /\ call[c].pre.currentGenerator.model =
         modelConfigs[call[c].provider].strong
    /\ ~call[c].replyNamesTask
    /\ call[c].result = <<"returned", "true">>
    /\ currentGenerator.model = modelConfigs[call[c].provider].weak

\* C40: the constructor of a local-server generator overwrites
\* process.env.OPENAI_BASE_URL before the health check runs: every step that
\* constructs one, for a switch or for the temporary classification
\* generator, leaves the setting at '<baseUrl>/v1' of that generator, and no
\* other step changes it, a failed health check included; the setting is so
\* that of the most recently constructed local generator
C40_BaseUrlSetByEveryLocalConstruction ==
  [][/\ \A c \in Callers :
          (/\ call[c].pc \in {"create", "createWeak"}
           /\ call'[c].pc \in {"probe", "probeWeak"})
            => /\ IsLocalServer(call'[c].pending.authType)
               /\ OPENAI_BASE_URL' = <<call'[c].pending.baseUrl, "/v1">>
     /\ OPENAI_BASE_URL' # OPENAI_BASE_URL
          => \E c \in Callers :
               /\ call[c].pc \in {"create", "createWeak"}
               /\ call'[c].pc \in {"probe", "probeWeak"}]_vars

\* the generator for Ollama at port 11434 is live; a switch to the LM Studio
\* server at port 1234 was rejected after its health check, and the setting
\* names port 1234
C40_Witness ==
  \E c \in Callers :
    /\ call[c].pc = "done"
    /\ call[c].op \in {"switchModel", "switchToStrength"}
    /\ call[c].result = ProbeError(TargetConfig(call[c], modelConfigs))
    /\ currentGenerator = call[c].pre.currentGenerator
    /\ currentGenerator.baseUrl = "http://localhost:11434"
    /\ OPENAI_BASE_URL = <<"http://localhost:1234", "/v1">>

====
